---- MODULE Spec2Model ----
(***************************************************************************)
(* Model of the Qwen chat protocol client (src/QwenChat/src/client.py):    *)
(* one QwenClient, its conversation state (conversation_id, parent_id),    *)
(* the two chat operations chat() and send_message() and the line-by-line  *)
(* decoding of the streamed response.                                      *)
(*                                                                         *)
(* Text is a sequence of tokens.  The k-th delta received in a turn        *)
(* carries the one-token text <<k>> (or the empty text); the decoders only *)
(* test a text for emptiness and append it, so distinct tokens lose no     *)
(* behaviour and make order and repetition of text observable.             *)
(***************************************************************************)
EXTENDS Naturals, Sequences, FiniteSets

\* ---------------------------------------------------------------- bounds
\* lines delivered by the server in one turn
MaxLines == 3
\* entries of one record's `choices` array
MaxChoices == 2
\* deltas delivered by the server in one turn
MaxDeltas == 4
\* calls made by the first of two threads that share a client (the second
\* makes one fewer) and by each of two clients used side by side
MaxCalls == 2

\* ---------------------------------------------------------------- values
\* Python None / an unset field
None == "None"
\* a key that is absent from a JSON object
NoKey == "<absent>"

ConvIds == {"c1", "c2"}
RespIds == {"r1", "r2"}

\* A cookie mapping is a set of <<name, value>> pairs with distinct names.
EmptyCookies == {}
SomeCookies == {<<"ssxmod_itna", "v1">>}

\* ----------------------------------------------------- the response lines
Phases == {NoKey, "think", "answer", "web_search"}
Statuses == {"", "finished"}

\* One entry of `choices`, before its text is known.  The deltas tried: text
\* in every phase and with no phase, a reasoning delta without text, and
\* the delta that finishes the answer.
DeltaShapes ==
    { d \in [has_content : BOOLEAN, phase : Phases, status : Statuses] :
        /\ d.status = "finished" => (d.phase = "answer" /\ d.has_content)
        /\ ~d.has_content => (d.phase = "think" /\ d.status = "") }

ChoiceShapes == UNION {[1..n -> DeltaShapes] : n \in 0..MaxChoices}

\* the `choices` arrays tried on a record that also carries response.created
CreatedChoiceShapes == {c \in ChoiceShapes : Len(c) <= 1}

NoChoices == << >>

MkLine(prefix, form, created, rid, has_choices, choices) ==
    [prefix |-> prefix, form |-> form, created |-> created, rid |-> rid,
     has_choices |-> has_choices, choices |-> choices]

\* prefix: "" is a blank line, "data:" an event line, "id:" any other line.
\* form of the payload after line[5:].strip(): "empty", "[DONE]", "invalid"
\* (json.loads raises JSONDecodeError), "scalar" (a JSON null or number),
\* "object" (a JSON object with the keys below).
PlainLines ==
    { MkLine("", "empty", FALSE, NoKey, FALSE, NoChoices),
      MkLine("id:", "empty", FALSE, NoKey, FALSE, NoChoices),
      MkLine("data:", "empty", FALSE, NoKey, FALSE, NoChoices),
      MkLine("data:", "[DONE]", FALSE, NoKey, FALSE, NoChoices),
      MkLine("data:", "invalid", FALSE, NoKey, FALSE, NoChoices),
      MkLine("data:", "scalar", FALSE, NoKey, FALSE, NoChoices),
      MkLine("data:", "object", FALSE, NoKey, FALSE, NoChoices) }

ChoiceLines ==
    { MkLine("data:", "object", FALSE, NoKey, TRUE, c) : c \in ChoiceShapes }

CreatedLines ==
    { MkLine("data:", "object", TRUE, r, FALSE, NoChoices) : r \in RespIds \cup {NoKey} }
    \cup
    { MkLine("data:", "object", TRUE, r, TRUE, c) :
          r \in RespIds \cup {NoKey}, c \in CreatedChoiceShapes }

LineShapes == PlainLines \cup ChoiceLines \cup CreatedLines

\* the lines tried in the first turn of a client: every line, one response id
TurnShapes == { l \in LineShapes : l.rid \in {NoKey, "r1"} }

\* the lines tried in the turns of a longer session: every kind of line, a
\* content record being one answer delta
SessionShapes ==
    { l \in LineShapes :
        \/ l.choices = << >>
        \/ /\ ~l.created
           /\ Len(l.choices) = 1
           /\ l.choices[1] = [has_content |-> TRUE, phase |-> "answer", status |-> ""] }

\* the text of the delta that arrives as number k of the turn
DeltaText(shape, k) == IF shape.has_content THEN <<k>> ELSE << >>

\* the choices array as received: delta j of a line that arrives after
\* `base` earlier deltas carries token base + j
Stamp(choices, base) ==
    [j \in 1..Len(choices) |->
        [content |-> DeltaText(choices[j], base + j),
         phase |-> choices[j].phase,
         status |-> choices[j].status]]

\* dict.get(key, default)
Get(value, default) == IF value = NoKey THEN default ELSE value


\* ------------------------------------------------------- display events
Shown(fn, text) == [fn |-> fn, text |-> text]

\* ------------------------------------------------------- return values
RetNone == [val |-> "None", text |-> << >>, msg |-> ""]
RetStr(text) == [val |-> "str", text |-> text, msg |-> ""]
RetErr(msg) == [val |-> "str", text |-> << >>, msg |-> msg]
NotCalled == [val |-> "NotCalled", text |-> << >>, msg |-> ""]
\* the call left by an exception instead of returning
Raised == [val |-> "raised", text |-> << >>, msg |-> ""]

\* ------------------------------------------------------- the decoders
\* The local variables of the streaming loop of chat().
Frame(thinking, answer, phase, disp) ==
    [thinking_content |-> thinking, answer_content |-> answer,
     current_phase |-> phase, display |-> disp]

\* chat(): `if status == "finished" and phase == "answer": break`
ChatBreaks(delta) ==
    delta.status = "finished" /\ Get(delta.phase, "answer") = "answer"

\* ChatDelta with the flush not guarded by `and thinking_content`
ChatDeltaFlushesEmpty(fr, delta) ==
    LET content == delta.content
        phase == Get(delta.phase, "answer")
        changed == phase # fr.current_phase
        d1 == IF changed /\ fr.current_phase = "think"
              THEN Append(fr.display, Shown("stream_thinking", fr.thinking_content))
              ELSE fr.display
        d2 == IF changed /\ phase = "answer" /\ fr.current_phase = "think"
              THEN Append(d1, Shown("print_response_start", << >>))
              ELSE d1
    IN  [thinking_content |->
             IF content # << >> /\ phase = "think"
             THEN fr.thinking_content \o content ELSE fr.thinking_content,
         answer_content |->
             IF content # << >> /\ phase # "think"
             THEN fr.answer_content \o content ELSE fr.answer_content,
         current_phase |-> IF changed THEN phase ELSE fr.current_phase,
         display |-> d2]

\* chat(): the body of `for choice in data["choices"]` up to the break test
ChatDelta(fr, delta) ==
    LET content == delta.content
        phase == Get(delta.phase, "answer")
        changed == phase # fr.current_phase
        d1 == IF changed /\ fr.current_phase = "think" /\ fr.thinking_content # << >>
              THEN Append(fr.display, Shown("stream_thinking", fr.thinking_content))
              ELSE fr.display
        d2 == IF changed /\ phase = "answer" /\ fr.current_phase = "think"
              THEN Append(d1, Shown("print_response_start", << >>))
              ELSE d1
    IN  [thinking_content |->
             IF content # << >> /\ phase = "think"
             THEN fr.thinking_content \o content ELSE fr.thinking_content,
         answer_content |->
             IF content # << >> /\ phase # "think"
             THEN fr.answer_content \o content ELSE fr.answer_content,
         current_phase |-> IF changed THEN phase ELSE fr.current_phase,
         display |-> d2]

\* chat(): `for choice in data["choices"]`, left at the first break
RECURSIVE ChatChoices(_, _)
ChatChoices(fr, choices) ==
    IF choices = << >> THEN fr
    ELSE LET f1 == ChatDelta(fr, Head(choices))
         IN  IF ChatBreaks(Head(choices)) THEN f1
             ELSE ChatChoices(f1, Tail(choices))

\* send_message(): the body of `for choice in data["choices"]`
SendDelta(answer, delta) ==
    IF delta.content # << >> /\ Get(delta.phase, "answer") = "answer"
    THEN answer \o delta.content ELSE answer

RECURSIVE SendChoices(_, _)
SendChoices(answer, choices) ==
    IF choices = << >> THEN answer
    ELSE SendChoices(SendDelta(answer, Head(choices)), Tail(choices))

\* LineBranch with JSONDecodeError not caught inside the loop
LineBranchBadJsonRaises(line) ==
    IF line.prefix = "" THEN "skip"
    ELSE IF line.prefix # "data:" THEN "skip"
    ELSE IF line.form = "empty" \/ line.form = "[DONE]" THEN "skip"
    ELSE IF line.form = "invalid" THEN "raise"
    ELSE IF line.form = "scalar" THEN "raise"
    ELSE IF line.created THEN "created"
    ELSE IF line.has_choices THEN "choices"
    ELSE "skip"

\* LineBranch with the response.created branch not ended by `continue`
\* before the choices of the record are read
LineBranchChoicesFirst(line) ==
    IF line.prefix = "" THEN "skip"
    ELSE IF line.prefix # "data:" THEN "skip"
    ELSE IF line.form = "empty" \/ line.form = "[DONE]" THEN "skip"
    ELSE IF line.form = "invalid" THEN "skip"
    ELSE IF line.form = "scalar" THEN "raise"
    ELSE IF line.has_choices THEN "choices"
    ELSE IF line.created THEN "created"
    ELSE "skip"

\* What one iteration of `for line in resp.iter_lines()` does with a line.
\*   "skip"    the line is passed over (blank, no data: prefix, empty
\*             payload, [DONE], JSONDecodeError, an object with no known key)
\*   "created" the response.created branch, ended by `continue`
\*   "choices" the choices branch
\*   "raise"   an exception other than JSONDecodeError leaves the loop
LineBranch(line) ==
    IF line.prefix = "" THEN "skip"
    ELSE IF line.prefix # "data:" THEN "skip"
    ELSE IF line.form = "empty" \/ line.form = "[DONE]" THEN "skip"
    ELSE IF line.form = "invalid" THEN "skip"
    ELSE IF line.form = "scalar" THEN "raise"
    ELSE IF line.created THEN "created"
    ELSE IF line.has_choices THEN "choices"
    ELSE "skip"

\* CreatedParent that keeps a parent pointer once it is set
CreatedParentKeepsFirst(parent, line) ==
    IF line.rid # NoKey /\ parent = None THEN line.rid ELSE parent

\* CreatedParent that clears the pointer on a record without a response_id
CreatedParentClearsWithoutId(parent, line) ==
    IF line.rid # NoKey THEN line.rid ELSE None

\* the response.created branch: the parent pointer after the record
CreatedParent(parent, line) ==
    IF line.rid # NoKey THEN line.rid ELSE parent

\* chat(): one iteration of the streaming loop
ChatLine(fr, parent, line) ==
    LET b == LineBranch(line)
    IN  [frame |-> IF b = "choices" THEN ChatChoices(fr, line.choices) ELSE fr,
         parent_id |-> IF b = "created" THEN CreatedParent(parent, line) ELSE parent,
         raised |-> b = "raise"]

\* send_message(): one iteration of the streaming loop
SendLine(fr, parent, line) ==
    LET b == LineBranch(line)
    IN  [frame |-> IF b = "choices"
                   THEN [fr EXCEPT !.answer_content =
                                       SendChoices(fr.answer_content, line.choices)]
                   ELSE fr,
         parent_id |-> IF b = "created" THEN CreatedParent(parent, line) ELSE parent,
         raised |-> b = "raise"]

\* ------------------------------------------------- conversation creation
CreateResponse(transport, status, json, success, id) ==
    [transport |-> transport, status |-> status, json |-> json,
     success |-> success, id |-> id]

\* no creation request was sent
NoResponse == CreateResponse("none", 0, FALSE, FALSE, NoKey)

\* the outcomes of the creation request: a transport exception, a non-200
\* status, a body that is not JSON, success false, no data.id, an id
CreateResponses ==
    { CreateResponse("error", 0, FALSE, FALSE, NoKey),
      CreateResponse("ok", 500, TRUE, TRUE, "c1"),
      CreateResponse("ok", 200, FALSE, FALSE, NoKey),
      CreateResponse("ok", 200, TRUE, FALSE, "c1"),
      CreateResponse("ok", 200, TRUE, TRUE, NoKey) }
    \cup { CreateResponse("ok", 200, TRUE, TRUE, c) : c \in ConvIds }

\* the outcomes tried in the first turn of a client: one conversation id
FirstCreateResponses == { r \in CreateResponses : r.id \in {NoKey, "c1"} }

\* no chat-turn request was sent
NoTurnResponse == [transport |-> "none", status |-> 0]

TurnResponses ==
    { [transport |-> "error", status |-> 0],
      [transport |-> "ok", status |-> 500],
      [transport |-> "ok", status |-> 200] }

\* CreateConversation without the `if self.conversation_id` shortcut
CreateConversationAlways(conv, resp) ==
    IF resp.transport = "ok" /\ resp.status = 200 /\ resp.json
       /\ resp.success /\ resp.id # NoKey
    THEN [ret |-> resp.id, conversation_id |-> resp.id, sent |-> TRUE,
          raised |-> FALSE]
    ELSE [ret |-> conv, conversation_id |-> conv, sent |-> TRUE, raised |-> FALSE]

\* CreateConversation that takes data.id without testing `success`
CreateConversationIgnoresSuccess(conv, resp) ==
    IF conv # None
    THEN [ret |-> conv, conversation_id |-> conv, sent |-> FALSE, raised |-> FALSE]
    ELSE IF resp.transport = "ok" /\ resp.status = 200 /\ resp.json
            /\ resp.id # NoKey
         THEN [ret |-> resp.id, conversation_id |-> resp.id, sent |-> TRUE,
               raised |-> FALSE]
         ELSE [ret |-> None, conversation_id |-> None, sent |-> TRUE,
               raised |-> FALSE]

\* _create_conversation(): the returned value, the field afterwards,
\* whether a creation request was sent and whether an exception escapes.
\* client.post raising, resp.json() raising on a body that is not JSON and
\* a body without the expected fields all end in `return None`.
CreateConversation(conv, resp) ==
    IF conv # None
    THEN [ret |-> conv, conversation_id |-> conv, sent |-> FALSE, raised |-> FALSE]
    ELSE IF resp.transport = "ok" /\ resp.status = 200 /\ resp.json
            /\ resp.success /\ resp.id # NoKey
         THEN [ret |-> resp.id, conversation_id |-> resp.id, sent |-> TRUE,
               raised |-> FALSE]
         ELSE [ret |-> None, conversation_id |-> None, sent |-> TRUE,
               raised |-> FALSE]

\* the model id sent in every request
ModelId == "qwen3-max-2025-10-30"

\* the JSON body of the creation request; the timestamp is the time of the
\* call in milliseconds
CreateBody ==
    [title |-> "New Chat", models |-> <<ModelId>>, chat_mode |-> "normal",
     chat_type |-> "t2t", timestamp |-> "int(time.time() * 1000)",
     project_id |-> ""]

\* CreateRequest with a body that names two models
CreateRequestTwoModels ==
    [type |-> "create", chat_id |-> None, parent_id |-> None,
     body |-> [CreateBody EXCEPT !.models = <<ModelId, ModelId>>]]

\* the POST to /api/v2/chats/new
CreateRequest ==
    [type |-> "create", chat_id |-> None, parent_id |-> None, body |-> CreateBody]

\* the default of thinking_budget
DefaultBudget == 81920

\* budgets a caller passes to enable_thinking()
Budgets == {0, 1024, DefaultBudget}

\* FeatureConfig that sends a zero budget when thinking is disabled
FeatureConfigZeroBudget(enabled, budget) ==
    [thinking_enabled |-> enabled, output_schema |-> "phase",
     thinking_budget |-> IF enabled THEN <<budget>> ELSE <<0>>]

\* feature_config of a message: thinking_budget is << >> when the key is
\* absent and <<b>> when it is present with value b
FeatureConfig(enabled, budget) ==
    [thinking_enabled |-> enabled, output_schema |-> "phase",
     thinking_budget |-> IF enabled THEN <<budget>> ELSE << >>]

\* The arguments of a call: texts are sequences of tokens, has_system is
\* FALSE when system_prompt is None.
Args(prompt, has_system, system) ==
    [prompt |-> prompt, has_system |-> has_system, system |-> system]
DefaultArgs == Args(<<"u1">>, FALSE, << >>)
Prompts == {<<"u1">>, <<"u1", "u2">>}
Systems == {<<"s1">>, << >>}
PayloadArgs ==
    {Args(p, FALSE, << >>) : p \in Prompts}
        \cup {Args(p, TRUE, sp) : p \in Prompts, sp \in Systems}

\* FullPrompt with the user request before the system instructions
FullPromptUserFirst(a) ==
    IF a.has_system /\ a.system # << >>
    THEN <<"User Request: ">> \o a.prompt \o <<"\n\n[System Instructions: ">>
             \o a.system \o <<"]">>
    ELSE a.prompt

\* full_prompt of send_message(): the f-string is the concatenation of its
\* literal pieces and the two texts; `if system_prompt` is false for None
\* and for the empty string
FullPrompt(a) ==
    IF a.has_system /\ a.system # << >>
    THEN <<"[System Instructions: ">> \o a.system \o <<"]\n\nUser Request: ">>
             \o a.prompt
    ELSE a.prompt

\* the content of the message of a turn: chat() sends its prompt
Content(o, a) == IF o = "chat" THEN a.prompt ELSE FullPrompt(a)

\* the chat-turn request: the chat_id of the URL, the fields of the payload
\* that thread the conversation (chat_id, parent_id, and parentId and
\* parent_id of its one message), the feature_config and the content
TurnRequestOf(url_conv, conv, parent, msg_parentId, msg_parent, fc, content) ==
    [type |-> "turn", url_chat_id |-> url_conv, chat_id |-> conv,
     parent_id |-> parent, msg_parentId |-> msg_parentId,
     msg_parent_id |-> msg_parent, feature_config |-> fc, content |-> content]

\* the chat-turn request of a call that nothing interrupts: self.conversation_id
\* is read for the payload and for the URL, self.parent_id for the payload
\* and twice for its message
TurnRequest(conv, parent, fc, content) ==
    TurnRequestOf(conv, conv, parent, parent, parent, fc, content)

\* ------------------------------------------------ the stored credentials
\* the cookie mappings a login grabs from the browser
CookieMaps ==
    { EmptyCookies, SomeCookies, {<<"ssxmod_itna", "v2">>, <<"token", "ct">>} }

HasName(map, n) == \E kv \in map : kv[1] = n
Value(map, n) == (CHOOSE kv \in map : kv[1] = n)[2]

\* A token text: ws says that white space surrounds the text.
Tok(text, ws) == [present |-> TRUE, text |-> text, ws |-> ws]
NoToken == [present |-> FALSE, text |-> "", ws |-> FALSE]
Tokens == {Tok("t1", FALSE), Tok("t2", TRUE)}

\* str.strip()
Strip(t) == [t EXCEPT !.ws = FALSE]

\* `not token` negated
Truthy(t) == t.present /\ t.text # ""

RECURSIVE SetToSeq(_)
SetToSeq(S) ==
    IF S = {} THEN << >>
    ELSE LET x == CHOOSE y \in S : TRUE
         IN  <<x>> \o SetToSeq(S \ {x})

\* json.dump of a cookie mapping: the members of the object, one after another
DumpJson(map) == SetToSeq(map)

\* json.load of a dumped object
LoadJson(members) == {members[i] : i \in 1..Len(members)}

\* The cookies file: state is "missing", "ok" (a JSON object), "corrupt" (not
\* JSON) or "unreadable" (open() raises an OSError other than
\* FileNotFoundError).
CookiesFile(state, members) == [state |-> state, data |-> members]
MissingCookies == CookiesFile("missing", << >>)

\* The token file: state is "missing", "ok" or "unreadable".
TokenFile(state, t) == [state |-> state, data |-> t]
MissingToken == TokenFile("missing", NoToken)

\* _load_cookies(): only FileNotFoundError is caught
LoadCookies(cf) ==
    IF cf.state = "missing" THEN [raised |-> FALSE, cookies |-> {}]
    ELSE IF cf.state = "ok" THEN [raised |-> FALSE, cookies |-> LoadJson(cf.data)]
    ELSE [raised |-> TRUE, cookies |-> {}]

\* _get_token_from_cookies(): a cookie named token wins over the token file
GetTokenFromCookies(map, tf) ==
    IF HasName(map, "token")
    THEN [raised |-> FALSE, token |-> Tok(Value(map, "token"), FALSE)]
    ELSE IF tf.state = "missing" THEN [raised |-> FALSE, token |-> NoToken]
    ELSE IF tf.state = "ok" THEN [raised |-> FALSE, token |-> Strip(tf.data)]
    ELSE [raised |-> TRUE, token |-> NoToken]

\* the age of a login beyond which needs_reauth() asks for a new one
MaxAge == 1

\* Config.needs_reauth(): no credentials stored (a file that cannot be read
\* counts as none), or the last login too old
NeedsReauth(cf, age) == cf.state # "ok" \/ age > MaxAge

\* Config.update_login_time(): the last successful login is now
UpdateLoginTime(age) == 0

\* How a `with open(FILE, "w") as f:` block ends. "ok": the text is in the
\* file. "refused": open() raises and the file is as it was. "cut": open()
\* has emptied the file and the write raises with only the first kept
\* characters of the text in it.
Written == [how |-> "ok", kept |-> 0]
Refused == [how |-> "refused", kept |-> 0]
Cut(kept) == [how |-> "cut", kept |-> kept]

\* `with open(TOKEN_FILE, "w") as f: f.write(token)`: a file that exists
\* keeps its permissions, so one that could not be read still cannot
WriteToken(tf, t, w) ==
    IF w.how = "refused" \/ tf.state = "unreadable" THEN tf
    ELSE IF w.how = "cut"
         THEN TokenFile("ok", [t EXCEPT !.text = SubSeq(t.text, 1, w.kept)])
    ELSE TokenFile("ok", t)

\* `with open(COOKIES_FILE, "w") as f: json.dump(cookie_dict, f, indent=2)`:
\* the beginning of a JSON object, or nothing, is not JSON
WriteCookies(cf, map, w) ==
    IF w.how = "refused" \/ cf.state = "unreadable" THEN cf
    ELSE IF w.how = "cut" THEN CookiesFile("corrupt", << >>)
    ELSE CookiesFile("ok", DumpJson(map))

\* What the browser session of a login delivers: started is false when
\* uc.start() raises, which happens before the `try`; early is an exception
\* inside the `try` before the cookies are grabbed; token_write and
\* cookies_write say how the writes of the two files end, time_write
\* whether update_login_time() succeeds.
LoginOutcome(early, map, t, token_write, cookies_write, time_write) ==
    [started |-> TRUE, early |-> early, cookies |-> map, token |-> t,
     token_write |-> token_write, cookies_write |-> cookies_write,
     time_write |-> time_write]
\* the browser cannot be started; the login fails before the cookies are read
LoginOutcomes ==
    {[LoginOutcome(TRUE, EmptyCookies, NoToken, Written, Written, TRUE)
         EXCEPT !.started = FALSE],
     LoginOutcome(TRUE, EmptyCookies, NoToken, Written, Written, TRUE)}
        \cup {LoginOutcome(FALSE, c, t, Written, Written, TRUE) :
                 c \in CookieMaps, t \in {NoToken} \cup Tokens}
        \cup {LoginOutcome(FALSE, SomeCookies, Tok("t1", FALSE), w, Written, TRUE) :
                 w \in {Refused, Cut(0), Cut(1)}}
        \cup {LoginOutcome(FALSE, SomeCookies, Tok("t1", FALSE), Written, w, TRUE) :
                 w \in {Refused, Cut(1)}}
        \cup {LoginOutcome(FALSE, SomeCookies, Tok("t1", FALSE), Written, Written, FALSE)}

\* the pair returned by extract_credentials(): none is (None, None)
Credentials(none, map, t) == [none |-> none, cookies |-> map, token |-> t]
NoCredentials == Credentials(TRUE, EmptyCookies, NoToken)

\* Login with update_login_time() called before the cookies are written
LoginResetsTimeFirst(cf, tf, age, out) ==
    LET tf2 == IF Truthy(out.token) THEN WriteToken(tf, out.token, out.token_write)
               ELSE tf
        cf2 == WriteCookies(cf, out.cookies, out.cookies_write)
    IN  IF ~out.started
        THEN [cookies_file |-> cf, token_file |-> tf, login_age |-> age,
              raised |-> TRUE, ret |-> NoCredentials]
        ELSE IF out.early
        THEN [cookies_file |-> cf, token_file |-> tf, login_age |-> age,
              raised |-> FALSE, ret |-> NoCredentials]
        ELSE IF ~out.time_write
        THEN [cookies_file |-> cf, token_file |-> tf2, login_age |-> age,
              raised |-> FALSE, ret |-> NoCredentials]
        ELSE IF out.cookies_write.how # "ok"
        THEN [cookies_file |-> cf2, token_file |-> tf2,
              login_age |-> UpdateLoginTime(age),
              raised |-> FALSE, ret |-> NoCredentials]
        ELSE [cookies_file |-> cf2, token_file |-> tf2,
              login_age |-> UpdateLoginTime(age),
              raised |-> FALSE, ret |-> Credentials(FALSE, out.cookies, out.token)]

\* extract_credentials(): the files and the login time afterwards, the pair
\* it returns, and whether it raises instead. uc.start() is outside the
\* `try`, so its exception leaves the function; any later exception is
\* caught and (None, None) returned. The token file is written only when a
\* token was found, and an exception of that write is caught where it
\* happens; then the cookies file is written and the login time updated.
Login(cf, tf, age, out) ==
    LET tf2 == IF Truthy(out.token) THEN WriteToken(tf, out.token, out.token_write)
               ELSE tf
        cf2 == WriteCookies(cf, out.cookies, out.cookies_write)
    IN  IF ~out.started
        THEN [cookies_file |-> cf, token_file |-> tf, login_age |-> age,
              raised |-> TRUE, ret |-> NoCredentials]
        ELSE IF out.early
        THEN [cookies_file |-> cf, token_file |-> tf, login_age |-> age,
              raised |-> FALSE, ret |-> NoCredentials]
        ELSE IF out.cookies_write.how # "ok"
        THEN [cookies_file |-> cf2, token_file |-> tf2, login_age |-> age,
              raised |-> FALSE, ret |-> NoCredentials]
        ELSE IF ~out.time_write
        THEN [cookies_file |-> cf2, token_file |-> tf2, login_age |-> age,
              raised |-> FALSE, ret |-> NoCredentials]
        ELSE [cookies_file |-> cf2, token_file |-> tf2,
              login_age |-> UpdateLoginTime(age),
              raised |-> FALSE, ret |-> Credentials(FALSE, out.cookies, out.token)]

\* the two ensure_auth(): "cli" of QwenChat/main.py, "silent" of main.py
Variants == {"cli", "silent"}

\* EnsureAuthPlan that logs in whatever needs_reauth() says
EnsureAuthPlanAlwaysLogin(variant, needs, env) ==
    IF variant = "cli" /\ ~env THEN "refuse" ELSE "login"

\* the branch ensure_auth() takes: env says that an email and a password
\* are configured
EnsureAuthPlan(variant, needs, env) ==
    IF ~needs THEN "skip"
    ELSE IF variant = "cli" /\ ~env THEN "refuse"
    ELSE "login"

\* an exception of extract_credentials() leaves the ensure_auth() of
\* QwenChat/main.py, which has no `try`; around the one of main.py
\* perform_silent_login() catches it and returns False
EnsureAuthRaises(variant, raised) == raised /\ variant = "cli"

\* what ensure_auth() returns after a login: `not cookies or not token`
EnsureAuthResult(ret) == ~(ret.none \/ ret.cookies = {} \/ ~Truthy(ret.token))

\* ------------------------------------------------- what the claims observe
\* The kind of a received line, as the wire protocol names it: "none" is a
\* line that carries no event (blank, no data: prefix, an empty payload, an
\* object with neither key).
LineKind(line) ==
    IF line.prefix # "data:" THEN "none"
    ELSE IF line.form = "empty" THEN "none"
    ELSE IF line.form = "[DONE]" THEN "done"
    ELSE IF line.form = "invalid" THEN "invalid"
    ELSE IF line.form = "scalar" THEN "scalar"
    ELSE IF line.created THEN "created"
    ELSE IF line.has_choices THEN "choices"
    ELSE "none"

\* the step that led to the current state
Step(ev, line) ==
    [ev |-> ev, kind |-> LineKind(line), has_rid |-> line.rid # NoKey,
     with_choices |-> line.has_choices,
     with_text |-> \E j \in 1..Len(line.choices) : line.choices[j].content # << >>]
NoLine == MkLine("", "empty", FALSE, NoKey, FALSE, NoChoices)

IsFinishedAnswer(delta) ==
    delta.status = "finished" /\ Get(delta.phase, "answer") = "answer"

\* some delta of the array follows a finished answer delta of the array
RECURSIVE DeltaAfterFinish(_)
DeltaAfterFinish(choices) ==
    IF Len(choices) <= 1 THEN FALSE
    ELSE IsFinishedAnswer(Head(choices)) \/ DeltaAfterFinish(Tail(choices))

HasFinishedAnswer(choices) ==
    \E j \in 1..Len(choices) : IsFinishedAnswer(choices[j])

\* A line of a well-formed event stream: a blank or non-event line, an
\* empty event, the sentinel, a response.created record with its
\* response_id and nothing else, or a choices record; nothing follows the
\* sentinel and no delta follows the delta that finishes the answer.
WellFormedLine(line, done, fin) ==
    /\ ~done
    /\ LineKind(line) \in {"none", "done", "created", "choices"}
    /\ LineKind(line) = "created" => (line.rid # NoKey /\ ~line.has_choices)
    /\ LineKind(line) = "choices" =>
          /\ ~DeltaAfterFinish(line.choices)
          /\ fin => line.choices = << >>

\* the text of the deltas of the array whose effective phase is `answer`
RECURSIVE AnswerText(_)
AnswerText(choices) ==
    IF choices = << >> THEN << >>
    ELSE (IF Get(Head(choices).phase, "answer") = "answer"
          THEN Head(choices).content ELSE << >>) \o AnswerText(Tail(choices))

\* the deltas of the array that chat() consumes: up to the one that
\* finishes the answer
RECURSIVE Consumed(_)
Consumed(choices) ==
    IF choices = << >> THEN << >>
    ELSE IF IsFinishedAnswer(Head(choices)) THEN <<Head(choices)>>
    ELSE <<Head(choices)>> \o Consumed(Tail(choices))

\* Phase changes away from reasoning over the consumed deltas: h.away counts
\* them, h.awayfull those met with reasoning text already received.
RECURSIVE AwayFold(_, _)
AwayFold(h, deltas) ==
    IF deltas = << >> THEN h
    ELSE LET ph == Get(Head(deltas).phase, "answer")
             leaves == h.prev = "think" /\ ph # "think"
         IN  AwayFold([prev |-> ph,
                       think |-> h.think \/ (ph = "think" /\ Head(deltas).content # << >>),
                       away |-> h.away + (IF leaves THEN 1 ELSE 0),
                       awayfull |-> h.awayfull + (IF leaves /\ h.think THEN 1 ELSE 0)],
                      Tail(deltas))

NoAway == [prev |-> None, think |-> FALSE, away |-> 0, awayfull |-> 0]

\* what the decoder of send_message() holds
Twin(answer, parent) == [answer_content |-> answer, parent_id |-> parent]

\* ------------------------------------------------------------- the state
VARIABLES
    cookies,           \* self.cookies
    conversation_id,   \* self.conversation_id
    parent_id,         \* self.parent_id
    pc,                \* "idle", or "streaming" inside the loop over the lines
    op,                \* the operation of the current or latest call
    thinking_content,  \* local of chat()
    answer_content,    \* local of chat() and send_message()
    current_phase,     \* local of chat()
    result,            \* the value returned by the latest call
    display,           \* stream_thinking / print_response_start / stream_live calls of the call
    reqs,              \* the HTTP requests sent by the call
    nlines,            \* lines received in the turn
    ndeltas,           \* deltas received in the turn
    last,              \* the step that led here
    h_done,            \* the sentinel has been received in the turn
    h_wf,              \* the lines received in the turn form a well-formed stream
    h_fin,             \* a delta finishing the answer has been received
    h_answer,          \* the answer-phase text received in the turn
    h_rid,             \* response_id of the latest response.created since creation or reset
    h_created,         \* a conversation was created since construction or reset
    h_away,            \* phase changes away from reasoning in the turn
    h_cr,              \* the response to the creation request of the latest call
    h_tr,              \* the response to the chat-turn request of the latest call
    h_text,            \* a line received in the turn carried a delta with text
    h_fin_at,          \* chat(): number of the first delta that finished the
                       \* answer, or 0
    h_twin,            \* answer and parent pointer of the decoder of
                       \* send_message() fed the same stream from the same state
    thinking_enabled,  \* self.thinking_enabled
    thinking_budget,   \* self.thinking_budget
    args,              \* prompt and system_prompt of the current or latest call
    token,             \* self.token
    cookies_file,      \* the file Config.COOKIES_FILE
    token_file,        \* the file Config.TOKEN_FILE
    login_age,         \* time since the login time recorded by update_login_time()
    has_login_env,     \* Config.QWEN_EMAIL and Config.QWEN_PASSWORD are set
    h_auth,            \* the ensure_auth() of the run, until its client is built
    h_reset,           \* conversation_id and parent_id before the latest reset
    h_prior,           \* an earlier call on this client decoded text
    threads,           \* concurrent use: where each thread is in its call
    wire,              \* concurrent use: the HTTP requests sent, in order
    h_conc,            \* concurrent use: overlap, ids assigned, turns answered
    peers,             \* two clients side by side: the fields of each, where
                       \* each is in its call, what each sent and was given
    llm,               \* the QwenLLM wrapper: its _initialized and _client,
                       \* the clients it made, what its call() returned
    stream             \* `resp` of the `with self.client.stream(...)` of the
                       \* call: "none", "open" (more lines may come),
                       \* "exhausted", "failed" or "closed"

client == <<cookies, conversation_id, parent_id>>
locals == <<thinking_content, answer_content, current_phase>>
turn_hist == <<h_done, h_wf, h_fin, h_answer, h_away, h_text, h_fin_at, h_twin>>
settings == <<thinking_enabled, thinking_budget>>
store == <<cookies_file, token_file, login_age>>
auth == <<token, cookies_file, token_file, login_age, has_login_env, h_auth>>
conc == <<threads, wire, h_conc>>
\* everything but the two clients side by side
solo == <<cookies, conversation_id, parent_id, pc, op, thinking_content,
          answer_content, current_phase, result, display, reqs, nlines,
          ndeltas, last, h_done, h_wf, h_fin, h_answer, h_rid, h_created, h_away,
          h_cr, h_tr, h_text, h_fin_at, h_twin, h_reset, h_prior, thinking_enabled,
          thinking_budget, args,
          token, cookies_file, token_file, login_age, has_login_env, h_auth,
          threads, wire, h_conc, stream, llm>>
vars == <<cookies, conversation_id, parent_id, pc, op, thinking_content,
          answer_content, current_phase, result, display, reqs, nlines,
          ndeltas, last, h_done, h_wf, h_fin, h_answer, h_rid, h_created, h_away,
          h_cr, h_tr, h_text, h_fin_at, h_twin, h_reset, h_prior, thinking_enabled,
          thinking_budget, args,
          token, cookies_file, token_file, login_age, has_login_env, h_auth,
          threads, wire, h_conc, stream, peers, llm>>


\* the threads that share one client, and the calls each of them makes
Threads == {1, 2}
\* the payload a thread is building: nothing read yet
NoDraft == [url_chat_id |-> None, chat_id |-> None, parent_id |-> None,
            msg_parentId |-> None, msg_parent_id |-> None]
\* a thread outside a call
IdleThread == [pc |-> "idle", calls |-> 0, k |-> 0, draft |-> NoDraft]
\* nothing has happened on the client yet
NoConc == [overlap |-> FALSE, ids |-> << >>, got |-> {}, rids |-> 0]

\* two client instances
Clients == {1, 2}
\* no chat-turn request was sent yet
NoRequest == [type |-> "none", chat_id |-> None, parent_id |-> None]
\* two clients after construction
NoPeers ==
    [fields |-> [c \in Clients |-> [conversation_id |-> None, parent_id |-> None]],
     at |-> [c \in Clients |-> [pc |-> "idle", calls |-> 0]],
     sent |-> [c \in Clients |-> [req |-> NoRequest, id |-> None, rid |-> None]],
     h |-> [c \in Clients |-> [id |-> None, rid |-> None, n |-> 0]],
     by |-> 0]

\* QwenLLM.__init__: no client, not initialized; nothing returned yet
NewLLM ==
    [initialized |-> FALSE, has_client |-> FALSE, made |-> 0, failed |-> FALSE,
     ret |-> NotCalled]
\* no ensure_auth() has run
NoAuth ==
    [variant |-> "none", absent |-> FALSE, age |-> 0, needed |-> FALSE,
     plan |-> "none", got |-> NoCredentials, ret |-> FALSE, intact |-> FALSE,
     raised |-> FALSE]

Ops == {"chat", "send_message"}

\* QwenClient.__init__
Init ==
    /\ cookies \in {EmptyCookies, SomeCookies}
    /\ conversation_id = None
    /\ parent_id = None
    /\ pc = "idle"
    /\ op = "chat"
    /\ thinking_content = << >>
    /\ answer_content = << >>
    /\ current_phase = None
    /\ result = NotCalled
    /\ display = << >>
    /\ reqs = << >>
    /\ nlines = 0
    /\ ndeltas = 0
    /\ last = Step("init", NoLine)
    /\ h_done = FALSE
    /\ h_wf = TRUE
    /\ h_fin = FALSE
    /\ h_answer = << >>
    /\ h_rid = None
    /\ h_created = FALSE
    /\ h_away = NoAway
    /\ h_cr = NoResponse
    /\ h_tr = NoTurnResponse
    /\ h_text = FALSE
    /\ h_fin_at = 0
    /\ h_twin = Twin(<< >>, None)
    /\ thinking_enabled = FALSE
    /\ thinking_budget = DefaultBudget
    /\ args = DefaultArgs
    /\ token = NoToken
    /\ cookies_file = IF cookies = {} THEN MissingCookies
                      ELSE CookiesFile("ok", DumpJson(cookies))
    /\ token_file = MissingToken
    /\ login_age = 0
    /\ has_login_env = TRUE
    /\ h_auth = NoAuth
    /\ h_reset = [conversation_id |-> None, parent_id |-> None]
    /\ h_prior = FALSE
    /\ threads = [t \in Threads |-> IdleThread]
    /\ wire = << >>
    /\ h_conc = NoConc
    /\ peers = NoPeers
    /\ llm = NewLLM
    /\ stream = "none"

\* Fails with send_message() returning None as chat() does
FailsWithNone(o, msg) == RetNone

\* HasCookies that lets a client without cookies through
HasCookiesAlways(c) == TRUE

\* `if not self.cookies` negated: the cookie mapping is not empty
HasCookies(c) == c # {}

\* StatusOk that lets every answered request through
StatusOkAlways(tr) == TRUE

\* `if resp.status_code != 200` negated
StatusOk(tr) == tr.status = 200

\* what a call leaves when it returns before the streaming loop
Fails(o, msg) == IF o = "chat" THEN RetNone ELSE RetErr(msg)

\* leaving the `with` block without closing the response
ExitStreamLeavesOpen(s) == s

\* leaving the `with self.client.stream(...) as resp` block, by return or
\* by exception: the context manager closes the response
ExitStream(s) == IF s = "none" THEN "none" ELSE "closed"

\* a buffer that starts a call with the text the previous call left
NewBufferKeepsText(old) == old

\* `thinking_content = ""` and `answer_content = ""` at the start of a call
NewBuffer(old) == << >>

\* chat(prompt) / send_message(prompt) up to the first line of the response
Call(o, creates, inputs) ==
    /\ pc = "idle"
    /\ op' = o
    /\ args' \in {a \in inputs : o = "chat" => ~a.has_system}
    /\ last' = Step(o, NoLine)
    /\ thinking_content' = NewBuffer(thinking_content)
    /\ answer_content' = NewBuffer(answer_content)
    /\ current_phase' = None
    /\ h_prior' = (h_prior \/ thinking_content # << >> \/ answer_content # << >>)
    /\ display' = << >>
    /\ nlines' = 0
    /\ ndeltas' = 0
    /\ h_done' = FALSE
    /\ h_wf' = TRUE
    /\ h_fin' = FALSE
    /\ h_answer' = << >>
    /\ h_away' = NoAway
    /\ h_text' = FALSE
    /\ h_fin_at' = 0
    /\ h_twin' = Twin(<< >>, parent_id)
    /\ UNCHANGED <<cookies, parent_id, h_rid, h_reset, settings, auth, conc, peers, llm>>
    /\ IF ~HasCookies(cookies)
       THEN /\ result' = Fails(o, "Error: No cookies found - please login first")
            /\ reqs' = << >>
            /\ pc' = "idle"
            /\ h_cr' = NoResponse
            /\ h_tr' = NoTurnResponse
            /\ stream' = "none"
            /\ UNCHANGED <<conversation_id, h_created, conc, peers, llm>>
       ELSE \E cr \in (IF conversation_id = None THEN creates
                       ELSE {CreateResponse("ok", 200, TRUE, TRUE, conversation_id)}),
               tr \in TurnResponses :
            LET c == CreateConversation(conversation_id, cr)
                creq == IF c.sent THEN <<CreateRequest>> ELSE << >>
            IN  /\ conversation_id' = c.conversation_id
                /\ h_created' = (h_created \/ (c.sent /\ c.conversation_id # None))
                /\ h_cr' = IF c.sent THEN cr ELSE NoResponse
                /\ IF c.raised
                   THEN /\ result' = Raised
                        /\ reqs' = creq
                        /\ pc' = "idle"
                        /\ h_tr' = NoTurnResponse
                        /\ stream' = "none"
                   ELSE IF c.ret = None
                   THEN /\ result' = Fails(o, "Error: Failed to create session")
                        /\ reqs' = creq
                        /\ pc' = "idle"
                        /\ h_tr' = NoTurnResponse
                        /\ stream' = "none"
                   ELSE /\ reqs' = Append(creq,
                                         TurnRequest(c.conversation_id, parent_id,
                                             FeatureConfig(thinking_enabled,
                                                           thinking_budget),
                                             Content(o, args')))
                        /\ h_tr' = tr
                        /\ IF tr.transport = "error"
                           THEN /\ result' = Fails(o, "Error: transport")
                                /\ pc' = "idle"
                                /\ stream' = "none"
                           ELSE IF ~StatusOk(tr)
                           THEN /\ result' = Fails(o, "Error: Request failed with status")
                                /\ pc' = "idle"
                                /\ stream' = ExitStream("open")
                           ELSE /\ result' = NotCalled
                                /\ pc' = "streaming"
                                /\ stream' = "open"

\* one iteration of `for line in resp.iter_lines()`
Line(shapes) ==
    /\ pc = "streaming"
    /\ nlines < MaxLines
    /\ \E shape \in {x \in shapes : ndeltas + Len(x.choices) <= MaxDeltas} :
       LET line == [shape EXCEPT !.choices = Stamp(shape.choices, ndeltas)]
           fr == Frame(thinking_content, answer_content, current_phase, display)
           out == IF op = "chat" THEN ChatLine(fr, parent_id, line)
                  ELSE SendLine(fr, parent_id, line)
           k == LineKind(line)
       IN  /\ nlines' = nlines + 1
           /\ ndeltas' = ndeltas + Len(line.choices)
           /\ last' = Step("line", line)
           /\ thinking_content' = out.frame.thinking_content
           /\ answer_content' = out.frame.answer_content
           /\ current_phase' = out.frame.current_phase
           /\ display' = out.frame.display
           /\ parent_id' = out.parent_id
           /\ IF out.raised
              THEN /\ pc' = "idle"
                   /\ result' = Fails(op, "Error: exception")
                   /\ stream' = ExitStream(stream)
              ELSE /\ pc' = "streaming"
                   /\ result' = result
                   /\ stream' = stream
           /\ h_done' = (h_done \/ k = "done")
           /\ h_wf' = (h_wf /\ WellFormedLine(line, h_done, h_fin))
           /\ h_fin' = (h_fin \/ (k = "choices" /\ HasFinishedAnswer(line.choices)))
           /\ h_answer' = IF k = "choices" THEN h_answer \o AnswerText(line.choices)
                          ELSE h_answer
           /\ h_rid' = IF k = "created" /\ line.rid # NoKey THEN line.rid ELSE h_rid
           /\ h_away' = IF k = "choices" /\ op = "chat"
                        THEN AwayFold(h_away, Consumed(line.choices)) ELSE h_away
           /\ h_text' = (h_text \/ last'.with_text)
           /\ h_fin_at' = IF h_fin_at = 0 /\ k = "choices" /\ op = "chat"
                              /\ HasFinishedAnswer(line.choices)
                           THEN ndeltas + Len(Consumed(line.choices))
                           ELSE h_fin_at
           /\ h_twin' = LET tf == Frame(<< >>, h_twin.answer_content, None, << >>)
                            t == SendLine(tf, h_twin.parent_id, line)
                        IN  IF op = "chat"
                            THEN Twin(t.frame.answer_content, t.parent_id)
                            ELSE Twin(answer_content', parent_id')
           /\ UNCHANGED <<cookies, conversation_id, op, reqs, h_created, h_cr, h_tr,
                          h_reset, h_prior, settings, args, auth, conc, peers, llm>>

\* EndOfStream that keeps waiting for lines of a source that has ended
EndOfStreamWaits ==
    /\ pc = "streaming"
    /\ UNCHANGED vars

\* EndOfStream that returns None for an empty answer
EndOfStreamNoneWhenEmpty ==
    /\ pc = "streaming"
    /\ pc' = "idle"
    /\ last' = Step("eof", NoLine)
    /\ stream' = ExitStream(stream)
    /\ display' = IF op = "chat" /\ answer_content # << >>
                  THEN Append(display, Shown("stream_live", answer_content))
                  ELSE display
    /\ result' = IF answer_content = << >> THEN RetNone ELSE RetStr(answer_content)
    /\ UNCHANGED <<client, op, locals, reqs, nlines, ndeltas, turn_hist, h_rid,
                   h_created, h_cr, h_tr, h_reset, h_prior, settings, args, auth, conc, peers, llm>>

\* the line source is exhausted: the code after the loop
EndOfStream ==
    /\ pc = "streaming"
    /\ pc' = "idle"
    /\ last' = Step("eof", NoLine)
    /\ stream' = ExitStream(stream)
    /\ display' = IF op = "chat" /\ answer_content # << >>
                  THEN Append(display, Shown("stream_live", answer_content))
                  ELSE display
    /\ result' = RetStr(answer_content)
    /\ UNCHANGED <<client, op, locals, reqs, nlines, ndeltas, turn_hist, h_rid,
                   h_created, h_cr, h_tr, h_reset, h_prior, settings, args, auth, conc, peers, llm>>

\* StreamError that puts the parent pointer back to what the turn was sent with
StreamErrorRollsBack ==
    /\ pc = "streaming"
    /\ pc' = "idle"
    /\ last' = Step("error", NoLine)
    /\ stream' = ExitStream(stream)
    /\ result' = Fails(op, "Error: transport")
    /\ parent_id' = reqs[Len(reqs)].parent_id
    /\ UNCHANGED <<cookies, conversation_id, op, locals, display, reqs, nlines,
                   ndeltas, turn_hist, h_rid, h_created, h_cr, h_tr, h_reset, h_prior,
                   settings, args, auth, conc, peers, llm>>

\* a transport error raised by iter_lines(): `except Exception`
StreamError ==
    /\ pc = "streaming"
    /\ pc' = "idle"
    /\ last' = Step("error", NoLine)
    /\ stream' = ExitStream(stream)
    /\ result' = Fails(op, "Error: transport")
    /\ UNCHANGED <<client, op, locals, display, reqs, nlines, ndeltas, turn_hist,
                   h_rid, h_created, h_cr, h_tr, h_reset, h_prior, settings, args, auth, conc, peers, llm>>

\* NewConversation that leaves the parent pointer
NewConversationKeepsParent ==
    /\ pc = "idle"
    /\ conversation_id' = None
    /\ parent_id' = parent_id
    /\ last' = Step("new_conversation", NoLine)
    /\ h_rid' = None
    /\ h_created' = FALSE
    /\ h_reset' = [conversation_id |-> conversation_id, parent_id |-> parent_id]
    /\ UNCHANGED <<cookies, pc, op, locals, result, display, reqs, nlines, ndeltas,
                   turn_hist, h_cr, h_tr, h_prior, settings, args, auth, conc, stream, peers, llm>>

\* new_conversation()
NewConversation ==
    /\ pc = "idle"
    /\ conversation_id' = None
    /\ parent_id' = None
    /\ last' = Step("new_conversation", NoLine)
    /\ h_rid' = None
    /\ h_created' = FALSE
    /\ h_reset' = [conversation_id |-> conversation_id, parent_id |-> parent_id]
    /\ UNCHANGED <<cookies, pc, op, locals, result, display, reqs, nlines, ndeltas,
                   turn_hist, h_cr, h_tr, h_prior, settings, args, auth, conc, stream, peers, llm>>

\* A session: any sequence of calls and resets on one client.
Next ==
    \/ \E o \in Ops : Call(o, CreateResponses, {DefaultArgs})
    \/ Line(SessionShapes)
    \/ EndOfStream
    \/ StreamError
    \/ NewConversation

Spec == Init /\ [][Next]_vars

\* The first call on a new client, over every response stream.
FirstCall(o) == last.ev = "init" /\ Call(o, FirstCreateResponses, {DefaultArgs})

NextTurn ==
    \/ \E o \in Ops : FirstCall(o)
    \/ Line(TurnShapes)
    \/ EndOfStream
    \/ StreamError

SpecTurn == Init /\ [][NextTurn]_vars

\* enable_thinking(enabled, budget)
EnableThinking(enabled, budget) ==
    /\ pc = "idle"
    /\ thinking_enabled' = enabled
    /\ thinking_budget' = budget
    /\ last' = Step("enable_thinking", NoLine)
    /\ UNCHANGED <<client, pc, op, locals, result, display, reqs, nlines, ndeltas,
                   turn_hist, h_rid, h_created, h_cr, h_tr, h_reset, h_prior, args, auth, conc, stream, peers, llm>>

\* the /thinking command of the tools menu
ToggleThinking ==
    /\ pc = "idle"
    /\ thinking_enabled' = ~thinking_enabled
    /\ last' = Step("toggle_thinking", NoLine)
    /\ UNCHANGED <<client, pc, op, locals, result, display, reqs, nlines, ndeltas,
                   turn_hist, h_rid, h_created, h_cr, h_tr, h_reset, h_prior, args,
                   thinking_budget, auth, conc, stream, peers, llm>>

\* the lines of the streams of these turns: the sentinel only
PayloadShapes == {MkLine("data:", "[DONE]", FALSE, NoKey, FALSE, NoChoices)}

\* The payload of the turns of a session in which the caller changes the
\* thinking settings and passes prompts and system instructions.
NextPayload ==
    \/ \E o \in Ops : Call(o, FirstCreateResponses, PayloadArgs)
    \/ \E enabled \in BOOLEAN, budget \in Budgets : EnableThinking(enabled, budget)
    \/ ToggleThinking
    \/ Line(PayloadShapes)
    \/ EndOfStream
    \/ StreamError

SpecPayload == Init /\ [][NextPayload]_vars

\* ------------------------------------------- credentials across the runs
\* The fields and histories of a client object that holds cookies c and
\* token t, with the program at p.
FreshClient(c, t, p) ==
    /\ cookies' = c
    /\ token' = t
    /\ pc' = p
    /\ conversation_id' = None
    /\ parent_id' = None
    /\ thinking_enabled' = FALSE
    /\ thinking_budget' = DefaultBudget
    /\ op' = "chat"
    /\ args' = DefaultArgs
    /\ thinking_content' = << >>
    /\ answer_content' = << >>
    /\ current_phase' = None
    /\ result' = NotCalled
    /\ display' = << >>
    /\ reqs' = << >>
    /\ nlines' = 0
    /\ ndeltas' = 0
    /\ h_done' = FALSE
    /\ h_wf' = TRUE
    /\ h_fin' = FALSE
    /\ h_answer' = << >>
    /\ h_rid' = None
    /\ h_created' = FALSE
    /\ h_away' = NoAway
    /\ h_cr' = NoResponse
    /\ h_tr' = NoTurnResponse
    /\ h_text' = FALSE
    /\ h_fin_at' = 0
    /\ h_twin' = Twin(<< >>, None)
    /\ h_reset' = [conversation_id |-> None, parent_id |-> None]
    /\ h_prior' = FALSE
    /\ stream' = "none"
    /\ UNCHANGED <<conc, peers>>

\* a fresh installation before the first run: nothing stored, no client
InitAuth ==
    /\ cookies = EmptyCookies
    /\ token = NoToken
    /\ pc = "unbuilt"
    /\ conversation_id = None
    /\ parent_id = None
    /\ thinking_enabled = FALSE
    /\ thinking_budget = DefaultBudget
    /\ op = "chat"
    /\ args = DefaultArgs
    /\ thinking_content = << >>
    /\ answer_content = << >>
    /\ current_phase = None
    /\ result = NotCalled
    /\ display = << >>
    /\ reqs = << >>
    /\ nlines = 0
    /\ ndeltas = 0
    /\ last = Step("init", NoLine)
    /\ h_done = FALSE
    /\ h_wf = TRUE
    /\ h_fin = FALSE
    /\ h_answer = << >>
    /\ h_rid = None
    /\ h_created = FALSE
    /\ h_away = NoAway
    /\ h_cr = NoResponse
    /\ h_tr = NoTurnResponse
    /\ h_text = FALSE
    /\ h_fin_at = 0
    /\ h_twin = Twin(<< >>, None)
    /\ h_reset = [conversation_id |-> None, parent_id |-> None]
    /\ h_prior = FALSE
    /\ threads = [t \in Threads |-> IdleThread]
    /\ wire = << >>
    /\ h_conc = NoConc
    /\ peers = NoPeers
    /\ llm = NewLLM
    /\ stream = "none"
    /\ cookies_file = MissingCookies
    /\ token_file = MissingToken
    /\ login_age = 0
    /\ has_login_env \in BOOLEAN
    /\ h_auth = NoAuth

\* QwenClient(): __init__ reads the two files; an exception it does not
\* catch leaves the program without a client
Construct ==
    /\ pc = "unbuilt"
    /\ last' = Step("construct", NoLine)
    /\ LET lc == LoadCookies(cookies_file)
           gt == GetTokenFromCookies(lc.cookies, token_file)
       IN  IF lc.raised \/ gt.raised
           THEN FreshClient(EmptyCookies, NoToken, "crashed")
           ELSE FreshClient(lc.cookies, gt.token, "idle")
    /\ h_auth' = NoAuth
    /\ UNCHANGED <<store, has_login_env, conc, peers, llm>>

\* the program ends: its client is gone, the files stay
Exit ==
    /\ pc \in {"idle", "streaming", "crashed"}
    /\ last' = Step("exit", NoLine)
    /\ FreshClient(EmptyCookies, NoToken, "unbuilt")
    /\ UNCHANGED <<store, has_login_env, h_auth, conc, peers, llm>>

\* ensure_auth() at the start of a run, up to its `await` of
\* extract_credentials(): it asks needs_reauth() and either returns or
\* starts the login, whose browser session the run then waits for
EnsureAuth(variant) ==
    /\ pc = "unbuilt"
    /\ last' = Step("ensure_auth", NoLine)
    /\ LET needs == NeedsReauth(cookies_file, login_age)
           plan == EnsureAuthPlan(variant, needs, has_login_env)
       IN  /\ h_auth' = [variant |-> variant, absent |-> cookies_file.state # "ok",
                         age |-> login_age, needed |-> needs, plan |-> plan,
                         got |-> NoCredentials, ret |-> (plan = "skip"),
                         intact |-> FALSE, raised |-> FALSE]
           /\ pc' = IF plan = "login" THEN "login" ELSE pc
    /\ UNCHANGED <<client, op, locals, result, display, reqs, nlines, ndeltas,
                   turn_hist, h_rid, h_created, h_cr, h_tr, h_reset, h_prior, settings, args,
                   token, store, has_login_env, conc, stream, peers, llm>>

\* The browser session has delivered: extract_credentials() writes the
\* files as they are by now and resets the login time, up to the `await` of
\* browser.stop() in its `finally`. An exception of uc.start() comes before
\* the `try` and leaves the function at once.
ExtractCredentials ==
    /\ pc = "login"
    /\ last' = Step("login", NoLine)
    /\ \E out \in LoginOutcomes :
          LET l == Login(cookies_file, token_file, login_age, out)
          IN  /\ cookies_file' = l.cookies_file
              /\ token_file' = l.token_file
              /\ login_age' = l.login_age
              /\ h_auth' = [h_auth EXCEPT !.got = l.ret,
                                          !.intact = ~l.ret.none,
                                          !.raised = EnsureAuthRaises(h_auth.variant,
                                                                      l.raised)]
              /\ pc' = IF ~l.raised THEN "stopping"
                       ELSE IF EnsureAuthRaises(h_auth.variant, l.raised)
                       THEN "crashed" ELSE "unbuilt"
    /\ UNCHANGED <<client, op, locals, result, display, reqs, nlines, ndeltas,
                   turn_hist, h_rid, h_created, h_cr, h_tr, h_reset, h_prior, settings, args,
                   token, has_login_env, conc, stream, peers, llm>>

\* the browser has stopped: extract_credentials() returns the pair it got
\* and ensure_auth() returns
EnsureAuthReturn ==
    /\ pc = "stopping"
    /\ last' = Step("ensure_auth_return", NoLine)
    /\ h_auth' = [h_auth EXCEPT !.ret = EnsureAuthResult(h_auth.got)]
    /\ pc' = "unbuilt"
    /\ UNCHANGED <<client, op, locals, result, display, reqs, nlines, ndeltas,
                   turn_hist, h_rid, h_created, h_cr, h_tr, h_reset, h_prior, settings, args,
                   token, store, has_login_env, conc, stream, peers, llm>>

\* what another process can do to the files between two runs or while a
\* login waits for the browser to deliver or to stop: remove one, overwrite the cookies with
\* something that is not JSON, or take the permission to read one
Damages ==
    {[file |-> "cookies", state |-> st] : st \in {"missing", "corrupt", "unreadable"}}
        \cup {[file |-> "token", state |-> st] : st \in {"missing", "unreadable"}}

Damage(d) ==
    /\ pc \in {"unbuilt", "login", "stopping"}
    /\ IF d.file = "cookies"
       THEN /\ cookies_file.state # d.state
            /\ d.state # "missing" => cookies_file.state # "missing"
            /\ cookies_file' = CookiesFile(d.state, << >>)
            /\ UNCHANGED token_file
       ELSE /\ token_file.state # d.state
            /\ d.state # "missing" => token_file.state # "missing"
            /\ token_file' = TokenFile(d.state, NoToken)
            /\ UNCHANGED cookies_file
    /\ h_auth' = [h_auth EXCEPT !.intact = FALSE]
    /\ last' = Step("damage", NoLine)
    /\ UNCHANGED <<client, pc, op, locals, result, display, reqs, nlines, ndeltas,
                   turn_hist, h_rid, h_created, h_cr, h_tr, h_reset, h_prior, settings, args,
                   token, login_age, has_login_env, conc, stream, peers, llm>>

\* time passes between two runs or while a login waits for the browser
Tick ==
    /\ pc \in {"unbuilt", "login", "stopping"}
    /\ login_age <= MaxAge
    /\ login_age' = login_age + 1
    /\ last' = Step("tick", NoLine)
    /\ UNCHANGED <<client, pc, op, locals, result, display, reqs, nlines, ndeltas,
                   turn_hist, h_rid, h_created, h_cr, h_tr, h_reset, h_prior, settings, args,
                   token, cookies_file, token_file, has_login_env, h_auth, conc, stream, peers, llm>>

\* the creation response of these runs
AuthCreateResponses == {CreateResponse("ok", 200, TRUE, TRUE, "c1")}

\* the lines of the streams of these runs: a creation record and the
\* sentinel
AuthShapes ==
    PayloadShapes \cup {MkLine("data:", "object", TRUE, "r1", FALSE, NoChoices)}

\* Runs of the program over the stored credentials: each run checks the
\* session, builds a client and goes through the turns and commands of
\* interactive_mode() until it ends.
NextAuth ==
    \/ \E variant \in Variants : EnsureAuth(variant)
    \/ ExtractCredentials
    \/ EnsureAuthReturn
    \/ Construct
    \/ \E o \in Ops : Call(o, AuthCreateResponses, {DefaultArgs})
    \/ Line(AuthShapes)
    \/ EndOfStream
    \/ StreamError
    \/ NewConversation
    \/ ToggleThinking
    \/ Exit
    \/ \E d \in Damages : Damage(d)
    \/ Tick

SpecAuth == InitAuth /\ [][NextAuth]_vars


\* ------------------------------------------- two threads on one client
\* chat() and send_message() called from two threads on the same client.
\* A step of a thread is one read or one write of self.conversation_id or
\* self.parent_id, or the sending of one request, or the arrival of one
\* response or line, so that the other thread can run between a test and
\* the request that follows it and between any two reads; the buffers are
\* locals of each call and are left out. With the default arguments the two operations
\* send the same payload.

\* the id the server gives conversation number n + 1
FreshConvId(n) == IF n % 2 = 0 THEN "c1" ELSE "c2"
\* the response_id of the response.created record number n + 1
FreshRespId(n) == IF n % 2 = 0 THEN "r1" ELSE "r2"

\* the outcomes of a creation request made after n creations
ConcCreateResponses(n) ==
    { CreateResponse("ok", 200, TRUE, TRUE, FreshConvId(n)),
      CreateResponse("ok", 200, TRUE, FALSE, NoKey) }

\* a response.created record with the response_id rid
CreatedLine(rid) == MkLine("data:", "object", TRUE, rid, FALSE, NoChoices)

\* the calls thread t makes: the second thread makes one
CallsOf(t) == IF t = 1 THEN MaxCalls ELSE 1

\* another thread is inside a call
Overlaps(t) == \E u \in Threads \ {t} : threads[u].pc # "idle"

\* the call of thread t returns
Return(t) ==
    [threads EXCEPT ![t] = [pc |-> "idle", calls |-> @.calls + 1, k |-> 0,
                            draft |-> NoDraft]]
\* thread t moves on inside its call
Goto(t, p) == [threads EXCEPT ![t].pc = p]

\* the call starts: `if not self.cookies`, then `if not self.conversation_id`
ThreadCall(t) ==
    /\ threads[t].pc = "idle"
    /\ threads[t].calls < CallsOf(t)
    /\ threads' = IF ~HasCookies(cookies) THEN Return(t)
                  ELSE IF conversation_id = None THEN Goto(t, "create")
                  ELSE Goto(t, "send")
    /\ h_conc' = [h_conc EXCEPT !.overlap = @ \/ (HasCookies(cookies) /\ Overlaps(t))]
    /\ UNCHANGED <<cookies, conversation_id, parent_id, pc, op, locals, result,
                   display, reqs, nlines, ndeltas, last, turn_hist, h_rid,
                   h_created, h_cr, h_tr, h_reset, h_prior, settings, args, auth,
                   wire, stream, peers, llm>>

\* _create_conversation() begins: `if self.conversation_id` returns the id
\* there is, otherwise the thread goes on to build the creation request
ThreadTest(t) ==
    /\ threads[t].pc = "create"
    /\ threads' = IF CreateConversation(conversation_id, NoResponse).sent
                  THEN Goto(t, "post")
                  ELSE Goto(t, "send")
    /\ UNCHANGED <<cookies, conversation_id, parent_id, pc, op, locals, result,
                   display, reqs, nlines, ndeltas, last, turn_hist, h_rid,
                   h_created, h_cr, h_tr, h_reset, h_prior, settings, args, auth,
                   wire, h_conc, stream, peers, llm>>

\* TestedId that reads the field again when the request is sent
TestedIdReadAgain(read, now) == now

\* the conversation id the POST of _create_conversation() goes by: the one
\* the test at its first line read; the field is not read again before the
\* request is sent
TestedId(read, now) == read

\* the creation request is sent
ThreadCreate(t) ==
    /\ threads[t].pc = "post"
    /\ IF CreateConversation(TestedId(None, conversation_id), NoResponse).sent
       THEN /\ wire' = Append(wire, CreateRequest)
            /\ threads' = Goto(t, "posted")
       ELSE /\ wire' = wire
            /\ threads' = Goto(t, "send")
    /\ UNCHANGED <<cookies, conversation_id, parent_id, pc, op, locals, result,
                   display, reqs, nlines, ndeltas, last, turn_hist, h_rid,
                   h_created, h_cr, h_tr, h_reset, h_prior, settings, args, auth,
                   h_conc, stream, peers, llm>>

\* _create_conversation() from the response of the POST: an accepted id is
\* assigned to self.conversation_id, anything else makes the call return
ThreadCreated(t) ==
    /\ threads[t].pc = "posted"
    /\ \E cr \in ConcCreateResponses(Len(h_conc.ids)) :
         LET c == CreateConversation(None, cr)
         IN  IF c.ret # None
             THEN /\ conversation_id' = c.conversation_id
                  /\ h_conc' = [h_conc EXCEPT !.ids = Append(@, c.conversation_id)]
                  /\ threads' = Goto(t, "send")
             ELSE /\ conversation_id' = conversation_id
                  /\ h_conc' = h_conc
                  /\ threads' = Return(t)
    /\ UNCHANGED <<cookies, parent_id, pc, op, locals, result,
                   display, reqs, nlines, ndeltas, last, turn_hist, h_rid,
                   h_created, h_cr, h_tr, h_reset, h_prior, settings, args, auth,
                   wire, stream, peers, llm>>

\* the request is built: one step for each read of a field of the client,
\* in the order of the reads: chat_id, parent_id, then parentId and
\* parent_id of the message for the payload dict, then the conversation id
\* once more for the URL. Another thread can run between any two.
ThreadBuild(t) ==
    /\ threads[t].pc \in {"send", "build2", "build3", "build4", "url"}
    /\ threads' =
         LET at == threads[t].pc
         IN  IF at = "send"
             THEN [threads EXCEPT ![t].pc = "build2",
                                  ![t].draft.chat_id = conversation_id]
             ELSE IF at = "build2"
             THEN [threads EXCEPT ![t].pc = "build3",
                                  ![t].draft.parent_id = parent_id]
             ELSE IF at = "build3"
             THEN [threads EXCEPT ![t].pc = "build4",
                                  ![t].draft.msg_parentId = parent_id]
             ELSE IF at = "build4"
             THEN [threads EXCEPT ![t].pc = "url",
                                  ![t].draft.msg_parent_id = parent_id]
             ELSE [threads EXCEPT ![t].pc = "ready",
                                  ![t].draft.url_chat_id = conversation_id]
    /\ UNCHANGED <<cookies, conversation_id, parent_id, pc, op, locals, result,
                   display, reqs, nlines, ndeltas, last, turn_hist, h_rid,
                   h_created, h_cr, h_tr, h_reset, h_prior, settings, args, auth,
                   wire, h_conc, stream, peers, llm>>

\* the chat-turn request is sent as it was built
ThreadSend(t) ==
    /\ threads[t].pc = "ready"
    /\ wire' = Append(wire,
                  LET d == threads[t].draft
                  IN  TurnRequestOf(d.url_chat_id, d.chat_id, d.parent_id,
                          d.msg_parentId, d.msg_parent_id,
                          FeatureConfig(thinking_enabled, thinking_budget),
                          Content("send_message", DefaultArgs)))
    /\ threads' = [threads EXCEPT ![t].pc = "sent", ![t].k = Len(wire) + 1,
                                  ![t].draft = NoDraft]
    /\ UNCHANGED <<cookies, conversation_id, parent_id, pc, op, locals, result,
                   display, reqs, nlines, ndeltas, last, turn_hist, h_rid,
                   h_created, h_cr, h_tr, h_reset, h_prior, settings, args, auth,
                   h_conc, stream, peers, llm>>

\* the response of the chat-turn request: a status other than 200 or a
\* transport error makes the call return
ThreadResponse(t) ==
    /\ threads[t].pc = "sent"
    /\ \E tr \in TurnResponses :
         threads' = IF tr.transport = "ok" /\ StatusOk(tr) THEN Goto(t, "stream")
                    ELSE Return(t)
    /\ UNCHANGED <<cookies, conversation_id, parent_id, pc, op, locals, result,
                   display, reqs, nlines, ndeltas, last, turn_hist, h_rid,
                   h_created, h_cr, h_tr, h_reset, h_prior, settings, args, auth,
                   wire, h_conc, stream, peers, llm>>

\* the stream delivers its response.created record
ThreadLine(t) ==
    /\ threads[t].pc = "stream"
    /\ parent_id' = CreatedParent(parent_id, CreatedLine(FreshRespId(h_conc.rids)))
    /\ h_conc' = [h_conc EXCEPT !.got = @ \cup {threads[t].k}, !.rids = (@ + 1) % 2]
    /\ threads' = Goto(t, "tail")
    /\ UNCHANGED <<cookies, conversation_id, pc, op, locals, result,
                   display, reqs, nlines, ndeltas, last, turn_hist, h_rid,
                   h_created, h_cr, h_tr, h_reset, h_prior, settings, args, auth,
                   wire, stream, peers, llm>>

\* the stream ends, with or without a response.created record, and the
\* call returns
ThreadEnd(t) ==
    /\ threads[t].pc \in {"stream", "tail"}
    /\ threads' = Return(t)
    /\ UNCHANGED <<cookies, conversation_id, parent_id, pc, op, locals, result,
                   display, reqs, nlines, ndeltas, last, turn_hist, h_rid,
                   h_created, h_cr, h_tr, h_reset, h_prior, settings, args, auth,
                   wire, h_conc, stream, peers, llm>>

\* Two threads that call one client, thread t CallsOf(t) times.
NextConc ==
    \/ \E t \in Threads : ThreadCall(t)
    \/ \E t \in Threads : ThreadTest(t)
    \/ \E t \in Threads : ThreadCreate(t)
    \/ \E t \in Threads : ThreadCreated(t)
    \/ \E t \in Threads : ThreadBuild(t)
    \/ \E t \in Threads : ThreadSend(t)
    \/ \E t \in Threads : ThreadResponse(t)
    \/ \E t \in Threads : ThreadLine(t)
    \/ \E t \in Threads : ThreadEnd(t)

\* A thread inside a call is scheduled again: its next statement is
\* executed. Nothing is assumed of the callers, nor of the server.
SpecConc ==
    /\ Init /\ [][NextConc]_vars
    /\ \A t \in Threads :
           WF_vars(ThreadTest(t) \/ ThreadCreate(t) \/ ThreadBuild(t) \/ ThreadSend(t))


\* ------------------------------------------ the line source and the loop
\* The end of the line source is the server's step; leaving the loop and
\* returning is the client's.

\* the ways resp.iter_lines() stops yielding: StopIteration, an exception
SourceEnds == {"exhausted", "failed"}

\* the line source of the open response terminates
SourceTerminates(how) ==
    /\ pc = "streaming"
    /\ stream = "open"
    /\ stream' = how
    /\ UNCHANGED <<client, pc, op, locals, result, display, reqs, nlines, ndeltas,
                   last, turn_hist, h_rid, h_created, h_cr, h_tr, h_reset, h_prior,
                   settings, args, auth, conc, peers, llm>>

\* the source yields one more line
LiveLine == stream = "open" /\ Line(SessionShapes)
\* the `for` loop ends: the code after the loop
AfterLoop == stream = "exhausted" /\ EndOfStream
\* iter_lines() raises: `except Exception`
Caught == stream = "failed" /\ StreamError

NextLive ==
    \/ \E o \in Ops : Call(o, FirstCreateResponses, {DefaultArgs})
    \/ LiveLine
    \/ \E how \in SourceEnds : SourceTerminates(how)
    \/ AfterLoop
    \/ Caught

\* the thread inside a call keeps running: code that can run does run
SpecLive ==
    Init /\ [][NextLive]_vars /\ WF_vars(AfterLoop) /\ WF_vars(Caught)


\* ------------------------------------------------- two client instances
\* Two QwenClient objects used side by side, each by one thread, with the
\* steps of SpecConc. The buffers are locals of each call and are left out.

\* conversation_id and parent_id as attributes of the class, shared by all
\* instances
OwnerShared(c) == 1

\* `self.conversation_id = None`, `self.parent_id = None` in __init__: the
\* fields are attributes of the instance
Owner(c) == c

\* the fields client c reads
FieldOf(p, c) == p.fields[Owner(c)]

\* the server gives each client a conversation of its own
PeerConvId(c) == IF c = 1 THEN "c1" ELSE "c2"
\* the response_id of record number n + 1 delivered to client c
PeerRespId(c, n) ==
    IF c = 1 THEN (IF n % 2 = 0 THEN "r1" ELSE "r2")
    ELSE (IF n % 2 = 0 THEN "r3" ELSE "r4")

\* the outcomes of a creation request of client c
PeerCreateResponses(c) ==
    { CreateResponse("ok", 200, TRUE, TRUE, PeerConvId(c)),
      CreateResponse("ok", 200, TRUE, FALSE, NoKey) }

\* the call of client c returns
PeerReturn(p, c) == [p EXCEPT !.at[c] = [pc |-> "idle", calls |-> @.calls + 1],
                               !.by = c]
\* client c moves on inside its call
PeerGoto(p, c, to) == [p EXCEPT !.at[c].pc = to, !.by = c]

\* the call starts: `if not self.cookies`, then `if not self.conversation_id`
PeerCall(c) ==
    /\ peers.at[c].pc = "idle"
    /\ peers.at[c].calls < MaxCalls
    /\ peers' = IF ~HasCookies(cookies) THEN PeerReturn(peers, c)
                ELSE IF FieldOf(peers, c).conversation_id = None
                THEN PeerGoto(peers, c, "create")
                ELSE PeerGoto(peers, c, "send")
    /\ UNCHANGED solo

\* _create_conversation() up to the POST
PeerCreate(c) ==
    /\ peers.at[c].pc = "create"
    /\ peers' = IF CreateConversation(FieldOf(peers, c).conversation_id,
                                      NoResponse).sent
                THEN PeerGoto(peers, c, "posted")
                ELSE PeerGoto(peers, c, "send")
    /\ UNCHANGED solo

\* _create_conversation() from the response of the POST
PeerCreated(c) ==
    /\ peers.at[c].pc = "posted"
    /\ \E cr \in PeerCreateResponses(c) :
         LET r == CreateConversation(None, cr)
         IN  peers' =
               IF r.ret # None
               THEN [PeerGoto(peers, c, "send") EXCEPT
                        !.fields[Owner(c)].conversation_id = r.conversation_id,
                        !.h[c].id = r.conversation_id]
               ELSE PeerReturn(peers, c)
    /\ UNCHANGED solo

\* the payload is built from the fields and the chat-turn request is sent;
\* only the one thread of client c writes its fields, so the five reads see
\* the same values
PeerSend(c) ==
    /\ peers.at[c].pc = "send"
    /\ peers' = [PeerGoto(peers, c, "sent") EXCEPT
                    !.sent[c] =
                       [req |-> TurnRequest(FieldOf(peers, c).conversation_id,
                                    FieldOf(peers, c).parent_id,
                                    FeatureConfig(thinking_enabled, thinking_budget),
                                    Content("send_message", DefaultArgs)),
                        id |-> peers.h[c].id, rid |-> peers.h[c].rid]]
    /\ UNCHANGED solo

\* the response of the chat-turn request
PeerResponse(c) ==
    /\ peers.at[c].pc = "sent"
    /\ \E tr \in TurnResponses :
         peers' = IF tr.transport = "ok" /\ StatusOk(tr)
                  THEN PeerGoto(peers, c, "stream")
                  ELSE PeerReturn(peers, c)
    /\ UNCHANGED solo

\* the stream delivers its response.created record
PeerLine(c) ==
    /\ peers.at[c].pc = "stream"
    /\ LET rid == PeerRespId(c, peers.h[c].n)
       IN  peers' = [PeerGoto(peers, c, "tail") EXCEPT
                        !.fields[Owner(c)].parent_id =
                            CreatedParent(@, CreatedLine(rid)),
                        !.h[c].rid = rid,
                        !.h[c].n = (@ + 1) % 2]
    /\ UNCHANGED solo

\* the stream ends and the call returns
PeerEnd(c) ==
    /\ peers.at[c].pc \in {"stream", "tail"}
    /\ peers' = PeerReturn(peers, c)
    /\ UNCHANGED solo

\* new_conversation() on client c
PeerReset(c) ==
    /\ peers.at[c].pc = "idle"
    /\ peers.at[c].calls < MaxCalls
    /\ peers' = [PeerReturn(peers, c) EXCEPT
                    !.fields[Owner(c)] = [conversation_id |-> None,
                                          parent_id |-> None],
                    !.h[c].id = None,
                    !.h[c].rid = None]
    /\ UNCHANGED solo

\* Two clients, each called MaxCalls times, in any interleaving.
NextTwo ==
    \/ \E c \in Clients : PeerCall(c)
    \/ \E c \in Clients : PeerCreate(c)
    \/ \E c \in Clients : PeerCreated(c)
    \/ \E c \in Clients : PeerSend(c)
    \/ \E c \in Clients : PeerResponse(c)
    \/ \E c \in Clients : PeerLine(c)
    \/ \E c \in Clients : PeerEnd(c)
    \/ \E c \in Clients : PeerReset(c)

SpecTwo == Init /\ [][NextTwo]_vars


\* ------------------------------------------------- the QwenLLM wrapper
\* QwenLLM.call(): _ensure_client(), then send_message() on the client it
\* holds, then the returned text or a replacement for an empty one.

\* _ensure_client that builds a client on every call
EnsureClientPlanAlways(initialized) == "construct"

\* `if not self._initialized`
EnsureClientPlan(initialized) == IF initialized THEN "keep" ELSE "construct"

\* `return response if response else "No response received"`, and
\* `except Exception` around send_message()
LLMResult(r) ==
    IF r.val = "raised" THEN RetErr("Error calling Qwen")
    ELSE IF r.val = "str" /\ (r.text # << >> \/ r.msg # "") THEN r
    ELSE RetErr("No response received")

\* call() is entered and runs _ensure_client(). Loading the client class
\* or the constructor can raise: the RuntimeError leaves call(), _client
\* and _initialized stay as they were.
LLMEnsure ==
    /\ pc = "idle"
    /\ last.ev \in {"init", "return", "raise"}
    /\ IF EnsureClientPlan(llm.initialized) = "keep"
       THEN /\ last' = Step("ensure", NoLine)
            /\ llm' = llm
            /\ UNCHANGED <<client, pc, op, locals, result, display, reqs, nlines,
                           ndeltas, turn_hist, h_rid, h_created, h_cr, h_tr, h_reset,
                           h_prior, settings, args, token, stream>>
       ELSE \E loadable \in BOOLEAN :
            LET lc == LoadCookies(cookies_file)
                gt == GetTokenFromCookies(lc.cookies, token_file)
            IN  IF loadable /\ ~lc.raised /\ ~gt.raised
                THEN /\ FreshClient(lc.cookies, gt.token, "idle")
                     /\ last' = Step("construct", NoLine)
                     /\ llm' = [llm EXCEPT !.initialized = TRUE,
                                           !.has_client = TRUE,
                                           !.made = @ + 1]
                ELSE /\ last' = Step("raise", NoLine)
                     /\ llm' = [llm EXCEPT !.failed = TRUE, !.ret = Raised]
                     /\ UNCHANGED <<client, pc, op, locals, result, display, reqs,
                                    nlines, ndeltas, turn_hist, h_rid, h_created,
                                    h_cr, h_tr, h_reset, h_prior, settings, args,
                                    token, stream>>
    /\ UNCHANGED <<store, has_login_env, h_auth, conc, peers>>

\* call() goes on to self._client.send_message(prompt, system_prompt)
LLMSend ==
    /\ last.ev \in {"ensure", "construct"}
    /\ Call("send_message", FirstCreateResponses, PayloadArgs)

\* send_message() has returned and call() returns
LLMReturn ==
    /\ pc = "idle"
    /\ last.ev \in {"send_message", "line", "eof", "error"}
    /\ last' = Step("return", NoLine)
    /\ llm' = [llm EXCEPT !.ret = LLMResult(result)]
    /\ UNCHANGED <<client, pc, op, locals, result, display, reqs, nlines, ndeltas,
                   turn_hist, h_rid, h_created, h_cr, h_tr, h_reset, h_prior,
                   settings, args, auth, conc, stream, peers>>

\* Any sequence of call()s on one QwenLLM.
NextLLM ==
    \/ LLMEnsure
    \/ LLMSend
    \/ Line(SessionShapes)
    \/ EndOfStream
    \/ StreamError
    \/ LLMReturn

SpecLLM == Init /\ [][NextLLM]_vars

\* ================================================================ claims

\* a call has returned through the code after the streaming loop
ReturnedAtEnd == pc = "idle" /\ last.ev = "eof"

\* the stream_thinking calls of the call, in order
ThinkingShown == SelectSeq(display, LAMBDA e : e.fn = "stream_thinking")
AnswerShown == SelectSeq(display, LAMBDA e : e.fn = "stream_live")

\* C1: for a well-formed stream ended by the [DONE] sentinel, chat() and
\* send_message() return exactly the text of the deltas whose effective
\* phase is `answer` (no phase counts as answer), in arrival order, and no
\* text of a delta in another phase.
C1_AnswerIsAnswerPhaseText ==
    (ReturnedAtEnd /\ h_wf /\ h_done) => result = RetStr(h_answer)

\* C2: in chat(), no text of a reasoning delta is passed to stream_thinking
\* more than once: two stream_thinking calls of a turn share no token.
C2_ReasoningShownOnce ==
    \A i, j \in 1..Len(ThinkingShown) :
        i < j =>
            \A a \in 1..Len(ThinkingShown[i].text), b \in 1..Len(ThinkingShown[j].text) :
                ThinkingShown[i].text[a] # ThinkingShown[j].text[b]

\* C3: once the [DONE] sentinel has been received, no later step of the
\* turn changes the answer buffer, the reasoning buffer or the parent pointer.
C3_NothingAfterSentinel ==
    [][(pc = "streaming" /\ h_done) =>
          /\ answer_content' = answer_content
          /\ thinking_content' = thinking_content
          /\ parent_id' = parent_id]_vars

\* the answer text is displayed at most once, as the last display event of a
\* call that has left the streaming loop at the end of the line source
AnswerShownAtEnd ==
    /\ Len(AnswerShown) <= 1
    /\ Len(AnswerShown) = 1 =>
          /\ ReturnedAtEnd
          /\ display[Len(display)] = Shown("stream_live", answer_content)

\* C4 as stated: in chat(), a reasoning flush at every delta at which the
\* phase changes away from reasoning and nowhere else; the answer displayed
\* once, after the line source has ended.
C4_FlushAtEveryLeave ==
    op = "chat" => (Len(ThinkingShown) = h_away.away /\ AnswerShownAtEnd)

\* C4 amended: in chat(), a reasoning flush at every delta at which the phase
\* changes away from reasoning after reasoning text has been received in the
\* turn, and nowhere else; the answer displayed once, after the line source
\* has ended.
C4_FlushAtEveryLeaveWithText ==
    op = "chat" => (Len(ThinkingShown) = h_away.awayfull /\ AnswerShownAtEnd)

\* reasoning -> answer -> reasoning -> answer, flushed twice, answer shown
C4_Witness ==
    /\ op = "chat"
    /\ ReturnedAtEnd
    /\ h_away.awayfull = 2
    /\ Len(ThinkingShown) = 2
    /\ Len(AnswerShown) = 1
    /\ Len(result.text) = 2

\* a step that consumes one line of the response
LineStep == pc = "streaming" /\ nlines' = nlines + 1 /\ last'.ev = "line"

\* C5: a data: line whose payload is not valid JSON is a no-op: the answer
\* buffer, the reasoning buffer, the current phase and the parent pointer
\* are unchanged and the loop goes on, so the lines that follow are
\* processed from the state the line before it left.
C5_BadJsonIsNoOp ==
    [][(LineStep /\ last'.kind = "invalid") =>
          /\ answer_content' = answer_content
          /\ thinking_content' = thinking_content
          /\ current_phase' = current_phase
          /\ parent_id' = parent_id
          /\ display' = display
          /\ pc' = "streaming"
          /\ result' = result]_vars

\* a bad line met with answer text, reasoning text and a parent pointer held
C5_Witness ==
    /\ pc = "streaming"
    /\ last.ev = "line"
    /\ last.kind = "invalid"
    /\ answer_content # << >>
    /\ thinking_content # << >>
    /\ parent_id # None

\* C6: a record carrying response.created with a response_id sets the parent
\* pointer to that id and appends nothing to the answer or reasoning buffer,
\* also when the record carries a choices array.
C6_CreatedSetsParentOnly ==
    [][(LineStep /\ last'.kind = "created" /\ last'.has_rid) =>
          /\ h_rid' # None
          /\ parent_id' = h_rid'
          /\ answer_content' = answer_content
          /\ thinking_content' = thinking_content]_vars

\* a response.created record with a response_id and a delta with text
C6_Witness ==
    /\ last.ev = "line"
    /\ last.kind = "created"
    /\ last.has_rid
    /\ last.with_choices
    /\ last.with_text
    /\ parent_id = "r1"
    /\ answer_content = << >>

\* a step in which chat() or send_message() is called
CallStep == pc = "idle" /\ last'.ev \in Ops

\* the requests of a sequence of a given type
OfType(rs, t) == SelectSeq(rs, LAMBDA r : r.type = t)

\* C7: the parent_id sent with a chat turn is the response_id of the most
\* recent response.created record processed since the client was created
\* or last reset, and null when there is none, over any sequence of
\* successful turns, failed turns and resets.
C7_TurnCarriesLatestResponseId ==
    [][CallStep =>
          \A i \in 1..Len(reqs') :
              reqs'[i].type = "turn" => reqs'[i].parent_id = h_rid]_vars

\* a turn sent with the second of two response ids received since the reset
\* that followed an earlier threaded conversation
C7_Witness ==
    /\ pc = "streaming"
    /\ nlines = 0
    /\ Len(OfType(reqs, "turn")) = 1
    /\ OfType(reqs, "turn")[1].parent_id = "r2"
    /\ h_reset.parent_id = "r1"

\* C8: once a conversation has been created, a call sends no creation
\* request until new_conversation(); the first call after new_conversation()
\* on a client that holds cookies sends a creation request again.
C8_OneCreationPerConversation ==
    [][CallStep =>
          /\ h_created => OfType(reqs', "create") = << >>
          /\ (last.ev = "new_conversation" /\ cookies # {}) =>
                (reqs' # << >> /\ reqs'[1] = CreateRequest)]_vars

\* a conversation created again by the call that follows the reset of a
\* created conversation
C8_Witness ==
    /\ last.ev \in Ops
    /\ h_reset.conversation_id # None
    /\ h_created
    /\ reqs # << >>
    /\ reqs[1] = CreateRequest
    /\ conversation_id # None

\* the creation request failed: no status 200, a body that is not JSON,
\* success false or no data.id, or a transport exception
CreationFailed(r) ==
    /\ r # NoResponse
    /\ \/ r.transport = "error"
       \/ r.status # 200
       \/ ~r.json
       \/ ~r.success
       \/ r.id = NoKey

\* C9: a failed creation request raises nothing: the call returns its
\* failure value, conversation_id stays unset, no chat-turn request is sent,
\* and the next call sends a creation request again.
C9_FailedCreationLeavesUnset ==
    [][CallStep =>
          /\ CreationFailed(h_cr') =>
                /\ result' = Fails(op', "Error: Failed to create session")
                /\ conversation_id' = None
                /\ reqs' = <<CreateRequest>>
                /\ pc' = "idle"
          /\ (CreationFailed(h_cr) /\ last.ev \in Ops) =>
                (reqs' # << >> /\ reqs'[1] = CreateRequest)]_vars

\* a call that got `success: false` for its creation request
C9_Witness ==
    /\ last.ev = "send_message"
    /\ h_cr.transport = "ok" /\ h_cr.status = 200 /\ h_cr.json /\ ~h_cr.success
    /\ reqs = <<CreateRequest>>
    /\ conversation_id = None
    /\ result = RetErr("Error: Failed to create session")

\* C10: new_conversation() returns with conversation_id and parent_id unset,
\* whatever they were.
C10_ResetClearsBoth ==
    last.ev = "new_conversation" =>
        (conversation_id = None /\ parent_id = None /\ pc = "idle")

\* a reset of a conversation that had a parent pointer
C10_Witness ==
    /\ last.ev = "new_conversation"
    /\ h_reset.conversation_id # None
    /\ h_reset.parent_id # None
    /\ conversation_id = None
    /\ parent_id = None

\* a transport error ended the streaming loop of the latest call
ReturnedOnError == pc = "idle" /\ last.ev = "error"

\* C11: when a network-level error interrupts the stream after some answer
\* text was decoded, the result of chat() and of send_message() carries the
\* answer text accumulated so far.
C11_ErrorCarriesPartialAnswer ==
    (ReturnedOnError /\ answer_content # << >>) => result.text = answer_content

\* the latest call was send_message() and it is over
SendMessageOver == pc = "idle" /\ op = "send_message"

\* C12: send_message() returns a string in every outcome and never raises:
\* the decoded answer (possibly empty) at the end of the stream, and an
\* error text when cookies are missing, when the creation fails, when the
\* chat request fails or is answered with a status other than 200, and when
\* an exception ends the streaming loop.
C12_SendMessageReturnsString ==
    SendMessageOver =>
        /\ result.val = "str"
        /\ last.ev = "eof" => result = RetStr(answer_content)
        /\ last.ev = "send_message" /\ cookies = {} =>
               result = RetErr("Error: No cookies found - please login first")
        /\ last.ev = "send_message" /\ CreationFailed(h_cr) =>
               result = RetErr("Error: Failed to create session")
        /\ last.ev = "send_message" /\ h_tr.transport = "error" =>
               result = RetErr("Error: transport")
        /\ last.ev = "send_message" /\ h_tr.transport = "ok" /\ h_tr.status # 200 =>
               result = RetErr("Error: Request failed with status")
        /\ last.ev = "error" => result = RetErr("Error: transport")
        /\ last.ev = "line" => result = RetErr("Error: exception")

C12_Witness ==
    /\ SendMessageOver
    /\ last.ev = "error"
    /\ answer_content # << >>
    /\ result = RetErr("Error: transport")

\* C13: with an empty cookie mapping chat() and send_message() send no HTTP
\* request, leave conversation_id and parent_id as they were, and return the
\* failure at once: None from chat(), the error text from send_message().
C13_NoCookiesNoRequest ==
    [][(CallStep /\ cookies = {}) =>
          /\ reqs' = << >>
          /\ conversation_id' = conversation_id
          /\ parent_id' = parent_id
          /\ pc' = "idle"
          /\ result' = IF op' = "chat" THEN RetNone
                       ELSE RetErr("Error: No cookies found - please login first")]_vars

C13_Witness ==
    /\ cookies = {}
    /\ last.ev \in Ops
    /\ reqs = << >>
    /\ result.val \in {"None", "str"}

\* C14: a stream without a record that carries content (the [DONE] sentinel
\* at once, or no line at all) makes chat() and send_message() return the
\* empty string: neither an error nor None.
C14_EmptyStreamEmptyAnswer ==
    (ReturnedAtEnd /\ ~h_text) => result = RetStr(<< >>)

C14_Witness ==
    /\ ReturnedAtEnd
    /\ ~h_text
    /\ nlines = 1
    /\ h_done
    /\ result = RetStr(<< >>)

\* the turn requests sent by the call that just started
NewTurns == OfType(reqs', "turn")

\* C15: the feature_config of a turn carries thinking_budget exactly when
\* thinking is enabled at the time the turn is built, with the budget then
\* set, after any sequence of enable_thinking() calls and toggles; when
\* thinking is disabled the key is absent, not sent as zero.
C15_BudgetIffThinking ==
    [][CallStep =>
          \A i \in 1..Len(NewTurns) :
              LET fc == NewTurns[i].feature_config
              IN  /\ fc.thinking_enabled = thinking_enabled
                  /\ fc.thinking_budget # << >> <=> thinking_enabled
                  /\ thinking_enabled => fc.thinking_budget = <<thinking_budget>>]_vars

\* a turn built with thinking switched off after it had been enabled with a
\* budget of its own
C15_Witness ==
    /\ last.ev \in Ops
    /\ ~thinking_enabled
    /\ thinking_budget = 1024
    /\ Len(OfType(reqs, "turn")) = 1
    /\ OfType(reqs, "turn")[1].feature_config.thinking_budget = << >>

\* C16: send_message() with a system instruction sends as the content of its
\* one message the labelled system instructions followed by the labelled
\* user request, each text unchanged; without one (None, or the empty
\* string) it sends the prompt unchanged.
C16_SystemThenUser ==
    [][(CallStep /\ op' = "send_message") =>
          \A i \in 1..Len(NewTurns) :
              LET content == NewTurns[i].content
                  ns == Len(args'.system)
                  np == Len(args'.prompt)
              IN  IF args'.has_system /\ args'.system # << >>
                  THEN /\ Len(content) = ns + np + 2
                       /\ content[1] = "[System Instructions: "
                       /\ SubSeq(content, 2, ns + 1) = args'.system
                       /\ content[ns + 2] = "]\n\nUser Request: "
                       /\ SubSeq(content, ns + 3, ns + np + 2) = args'.prompt
                  ELSE content = args'.prompt]_vars

C16_Witness ==
    /\ last.ev = "send_message"
    /\ args = Args(<<"u1", "u2">>, TRUE, <<"s1">>)
    /\ Len(OfType(reqs, "turn")) = 1
    /\ Len(OfType(reqs, "turn")[1].content) = 5

\* a call has just returned or entered its streaming loop
CallDone == last.ev \in Ops

\* C17: when the persisted cookies or token cannot be read (missing,
\* unreadable or corrupt file), constructing the client does not fail: the
\* credentials count as absent, and a later chat operation reports the
\* missing credentials.
C17_UnreadableMeansAbsent ==
    /\ last.ev = "construct" =>
           /\ pc = "idle"
           /\ cookies_file.state # "ok" => cookies = EmptyCookies
           /\ (token_file.state # "ok" /\ ~HasName(cookies, "token")) =>
                  token = NoToken
    /\ (CallDone /\ cookies_file.state # "ok") =>
           /\ reqs = << >>
           /\ result = Fails(op, "Error: No cookies found - please login first")

\* a client is built in the run of a login, the files as the login left them
BuiltAfterLogin == last'.ev = "construct" /\ h_auth.intact

\* C18: the credentials persisted by a login are read back unchanged by a
\* client constructed afterwards: its cookies are the saved mapping and its
\* token is the token that login obtained, absent when it obtained none,
\* whatever earlier logins stored.
C18_LoginReadBack ==
    [][BuiltAfterLogin =>
          /\ pc' = "idle"
          /\ cookies' = h_auth.got.cookies
          /\ token' = h_auth.got.token]_vars

\* the latest ensure_auth() logged in, got cookies but no token, and has
\* returned
CookiesWithoutToken ==
    /\ pc # "stopping"
    /\ h_auth.plan = "login"
    /\ ~h_auth.got.none
    /\ h_auth.got.cookies # EmptyCookies
    /\ ~Truthy(h_auth.got.token)

\* C19: the absence of a token does not invalidate the cookies: a client
\* with cookies and no token sends the requests of its chat operations, and
\* ensure_auth() does not report a login that obtained cookies but no token
\* as failed.
C19_TokenAbsenceKeepsCookies ==
    /\ (CallDone /\ cookies # EmptyCookies /\ token = NoToken) => reqs # << >>
    /\ CookiesWithoutToken => h_auth.ret

\* the step is an ensure_auth() up to its return or its wait for the login
EnsureAuthStep == last'.ev = "ensure_auth"

\* C20: needs_reauth() is true when no credentials are stored and when the
\* last login is older than the maximum age, false otherwise; ensure_auth()
\* starts a login exactly when it is true, and otherwise reports success
\* without logging in and without touching the stored credentials. What is
\* stated here is the half on ensure_auth(), over the answer it gets from
\* needs_reauth().
C20_LoginExactlyWhenNeeded ==
    [][EnsureAuthStep =>
          /\ h_auth'.plan = "login" <=> h_auth'.needed
          /\ ~h_auth'.needed => (h_auth'.ret /\ store' = store)]_vars

\* C20 as the code has it: the login starts exactly when needs_reauth() is
\* true and, in QwenChat/main.py, an email and a password are configured;
\* a needed login that cannot start is reported as a failure and touches
\* nothing.
C20_LoginWhenNeededAndAble ==
    [][EnsureAuthStep =>
          LET able == h_auth'.variant = "silent" \/ has_login_env
          IN  /\ h_auth'.plan = "login" <=> (h_auth'.needed /\ able)
              /\ h_auth'.plan = "login" => (pc' = "login" /\ store' = store)
              /\ (h_auth'.needed /\ ~able) =>
                     (h_auth'.plan = "refuse" /\ ~h_auth'.ret /\ store' = store
                        /\ pc' = pc)
              /\ ~h_auth'.needed =>
                     (h_auth'.plan = "skip" /\ h_auth'.ret /\ store' = store
                        /\ pc' = pc)]_vars

C20_Witness ==
    /\ last.ev = "ensure_auth"
    /\ h_auth.variant = "cli"
    /\ h_auth.needed
    /\ h_auth.age > MaxAge
    /\ h_auth.plan = "refuse"
    /\ cookies_file.state = "ok"

\* the step is the end of a login
LoginStep == last'.ev = "login"

Creations == OfType(reqs, "create")

\* the creation response of the latest call is a status 200 whose body has
\* success true and a data.id
Accepted(r) ==
    /\ r.transport = "ok"
    /\ r.status = 200
    /\ r.json
    /\ r.success
    /\ r.id # NoKey

\* the latest call sent a creation request and holds a conversation id
CreatedNow == CallDone /\ Creations # << >> /\ conversation_id # None

\* C22: the body of the creation request has exactly the fields title,
\* models (a list with one model id), chat_mode, chat_type, timestamp_ms and
\* project_id, and a conversation id is accepted only from a status-200
\* response whose success is true and whose data.id is present.
C22_CreationBodyAndAcceptance ==
    /\ \A i \in 1..Len(Creations) :
           /\ DOMAIN Creations[i].body =
                  {"title", "models", "chat_mode", "chat_type", "timestamp_ms",
                   "project_id"}
           /\ Len(Creations[i].body.models) = 1
    /\ CreatedNow => (Accepted(h_cr) /\ conversation_id = h_cr.id)

\* C22 as the code has it: the time in milliseconds is sent in the field
\* named timestamp.
C22_CreationBodyWithTimestamp ==
    /\ \A i \in 1..Len(Creations) :
           /\ DOMAIN Creations[i].body =
                  {"title", "models", "chat_mode", "chat_type", "timestamp",
                   "project_id"}
           /\ Len(Creations[i].body.models) = 1
    /\ CreatedNow => (Accepted(h_cr) /\ conversation_id = h_cr.id)

C22_Witness ==
    /\ CreatedNow
    /\ DOMAIN Creations[1].body =
           {"title", "models", "chat_mode", "chat_type", "timestamp", "project_id"}
    /\ h_cr.id = "c2"

\* C23: no single received line aborts a turn: a data: line whose payload is
\* valid JSON but not of the expected shape (a JSON null or number) is
\* skipped, the buffers and the parent pointer stay as they were and the
\* loop goes on to the lines that follow.
C23_NoLineAborts ==
    [][LineStep =>
          /\ pc' = "streaming"
          /\ last'.kind = "scalar" =>
                 /\ answer_content' = answer_content
                 /\ thinking_content' = thinking_content
                 /\ parent_id' = parent_id
                 /\ result' = result]_vars

\* every token of the text is the text of a delta numbered at most n
UpTo(text, n) == \A i \in 1..Len(text) : text[i] <= n

\* C24: in chat(), once a delta with status finished and phase answer has
\* been processed, no content of a later choice or of a later record of the
\* stream is appended to the answer or the reasoning buffer.
C24_NothingAfterFinish ==
    (op = "chat" /\ h_fin_at > 0) =>
        (UpTo(answer_content, h_fin_at) /\ UpTo(thinking_content, h_fin_at))

\* C25: chat() and send_message() without a system instruction are
\* equivalent decoders: from the same client state and on the same stream
\* they return the same answer and leave the same parent pointer and the
\* same conversation id.
C25_SameDecoders ==
    (ReturnedAtEnd /\ op = "chat") =>
        /\ result = RetStr(h_twin.answer_content)
        /\ parent_id = h_twin.parent_id

\* a step in which a transport error ends the streaming loop
ErrorStep == pc = "streaming" /\ last'.ev = "error"

\* C27: a turn interrupted after a response.created record was processed
\* keeps the parent pointer at the id of that record and leaves the
\* conversation id unchanged; the parent pointer only ever holds None or the
\* response_id of the latest processed record.
C27_InterruptKeepsParent ==
    /\ [](parent_id \in RespIds \cup {None} /\ parent_id = h_rid)
    /\ [][ErrorStep =>
             (parent_id' = parent_id /\ conversation_id' = conversation_id)]_vars

\* a turn sent without a parent and interrupted after a record set one
C27_Witness ==
    /\ ReturnedOnError
    /\ reqs[Len(reqs)].parent_id = None
    /\ parent_id = "r1"
    /\ conversation_id # None

\* the call that starts is answered with a status other than 200
Non200Step == CallStep /\ h_tr'.transport = "ok" /\ h_tr'.status # 200

\* C28: when the status of the chat-turn response is not 200 the turn fails
\* before any line of the body is decoded: nothing is accumulated, the
\* parent pointer and the conversation id the turn was sent with stay, and
\* the failure is returned to the caller.
C28_Non200FailsBeforeDecoding ==
    [][Non200Step =>
          /\ pc' = "idle"
          /\ nlines' = 0
          /\ answer_content' = << >>
          /\ thinking_content' = << >>
          /\ parent_id' = parent_id
          /\ conversation_id' = reqs'[Len(reqs')].chat_id
          /\ conversation_id # None => conversation_id' = conversation_id
          /\ result' = IF op' = "chat" THEN RetNone
                       ELSE RetErr("Error: Request failed with status")]_vars

\* a later turn of a threaded conversation answered with status 500
C28_Witness ==
    /\ CallDone
    /\ pc = "idle"
    /\ h_tr.transport = "ok"
    /\ h_tr.status = 500
    /\ parent_id = "r1"
    /\ conversation_id = "c1"

\* the step is new_conversation()
ResetStep == pc = "idle" /\ last'.ev = "new_conversation"

\* C29: conversation_id is written only by a successful creation (from
\* unset to the id) and by new_conversation() (to unset), parent_id only by
\* a processed response.created record with a response_id and by
\* new_conversation(); no other step changes either, and a set
\* conversation_id is never replaced by another id without a reset.
C29_WritersOfTheThread ==
    [][/\ conversation_id' # conversation_id =>
              \/ /\ CallStep
                 /\ conversation_id = None
                 /\ Accepted(h_cr')
                 /\ conversation_id' = h_cr'.id
              \/ ResetStep /\ conversation_id' = None
       /\ parent_id' # parent_id =>
              \/ /\ LineStep
                 /\ last'.kind = "created"
                 /\ last'.has_rid
                 /\ parent_id' = h_rid'
              \/ ResetStep /\ parent_id' = None]_vars

\* a conversation created after a reset of a threaded conversation
C29_Witness ==
    /\ CallDone
    /\ h_reset.conversation_id = "c1"
    /\ h_reset.parent_id # None
    /\ conversation_id = "c2"
    /\ parent_id = None

\* C30: the buffers start empty on every call, so in a session the text
\* held and returned by a turn is the text of that turn's own stream; of
\* the client's fields a call leaves the parent pointer as it was and
\* touches the conversation id only by creating the conversation.
C30_TurnsAreIndependent ==
    /\ [](pc = "streaming" \/ ReturnedAtEnd => answer_content = h_answer)
    /\ [](ReturnedAtEnd => result = RetStr(h_answer))
    /\ [][CallStep =>
             /\ thinking_content' = << >>
             /\ answer_content' = << >>
             /\ current_phase' = None
             /\ parent_id' = parent_id
             /\ conversation_id # None => conversation_id' = conversation_id]_vars

\* a later turn of a client that decoded text before returns its own text
C30_Witness ==
    /\ ReturnedAtEnd
    /\ h_prior
    /\ parent_id # None
    /\ h_answer = <<1>>
    /\ result = RetStr(<<1>>)

\* the chat-turn requests on the wire, in the order they were sent
TurnsOnWire == { i \in 1..Len(wire) : wire[i].type = "turn" }

\* two chat-turn requests sent one after the other carry the same
\* parent_id although the stream of the first delivered a response_id
SameParentTwice ==
    \E i, j \in TurnsOnWire :
        /\ i < j
        /\ \A m \in TurnsOnWire : ~(i < m /\ m < j)
        /\ i \in h_conc.got
        /\ wire[i].parent_id = wire[j].parent_id

\* the server created two conversations for the one client
CreatedTwice == Len(h_conc.ids) >= 2

\* the request names one conversation and one parent: the URL and the
\* payload agree, and so do the payload and its message
Coherent(r) ==
    /\ r.url_chat_id = r.chat_id
    /\ r.msg_parentId = r.parent_id
    /\ r.msg_parent_id = r.parent_id

\* a chat-turn request on the wire contradicts itself
TornRequest == \E i \in TurnsOnWire : ~Coherent(wire[i])

\* thread t has found the conversation not yet created at the first line
\* of _create_conversation() and has not sent its request yet
SawNone(t) == threads[t].pc = "post"

\* the step sends the chat-turn request of thread t
Sends(t) == threads[t].pc = "ready" /\ threads'[t].pc = "sent"

\* the step assigns the id of a creation response to a client that holds one
Overwrites == conversation_id # None /\ conversation_id' # conversation_id

\* C26: one client is not safe for concurrent turns. A thread that has
\* seen the conversation as not yet created sends its creation request
\* whatever the other thread has done by then, so two threads that both saw
\* it send two, and the id of a creation response overwrites the id the
\* client holds; a turn is sent with the parent_id its thread read, whatever
\* the parent pointer is by then, so two threads that both read it before
\* either stream moved it send the same. None of this happens, and every
\* request names one conversation and one parent, as long as no call starts
\* while another is in flight.
C26_ConcurrentTurnsCollide ==
    /\ \A t \in Threads : SawNone(t) ~> (threads[t].pc = "posted")
    /\ [][\A t \in Threads :
             Sends(t) => wire'[Len(wire')].parent_id = threads[t].draft.parent_id]_vars
    /\ [][Overwrites => conversation_id' = h_conc'.ids[Len(h_conc'.ids)]]_vars
    /\ [](~h_conc.overlap => ~SameParentTwice /\ ~CreatedTwice /\ ~TornRequest)

\* two calls in flight: two creation requests, the second id over the
\* first, and two turns with the same parent_id
C26_Witness ==
    /\ h_conc.overlap
    /\ Len(OfType(wire, "create")) = 2
    /\ h_conc.ids = <<"c1", "c2">>
    /\ conversation_id = "c2"
    /\ SameParentTwice

\* the call has returned after the chat-turn request was answered
ReturnedAfterResponse == pc = "idle" /\ last.ev # "init" /\ h_tr.transport = "ok"

\* C31: on every exit of a turn (end of the stream, a status other than
\* 200, an exception while decoding, a transport error inside the loop) the
\* response opened for the turn is closed when the call returns; a response
\* is open only while the call is inside its loop.
C31_ResponseClosedOnReturn ==
    /\ pc = "idle" => stream # "open"
    /\ pc = "streaming" => stream = "open"
    /\ ReturnedAfterResponse /\ last.ev \in Ops \cup {"line", "eof", "error"}
           => stream = "closed"

\* a line raised an exception inside the loop and the call returned
C31_Witness ==
    /\ pc = "idle"
    /\ last.ev = "line"
    /\ nlines > 1
    /\ stream = "closed"

\* the line source of the call has terminated and the call has not returned
SourceOver == pc = "streaming" /\ stream \in SourceEnds

\* C32: whenever the line source terminates, by exhaustion (after the
\* sentinel or without one) or by a transport error, the call eventually
\* returns.
C32_SourceEndReturns == SourceOver ~> pc = "idle"

\* the call returned after the sentinel and the end of the source
C32_Witness ==
    /\ pc = "idle"
    /\ last.ev = "eof"
    /\ h_done
    /\ stream = "closed"
    /\ result = RetStr(h_answer)

\* what client c was given by the server since its construction or reset
OwnThread(c) == [conversation_id |-> peers.h[c].id, parent_id |-> peers.h[c].rid]

\* C33: with two clients used in any interleaving, a step of one client
\* leaves the conversation id and the parent pointer of the other as they
\* were, the fields of a client hold what the server gave that client, and
\* every chat turn carries the conversation id and the parent pointer of
\* the client that sent it.
C33_ClientsAreIndependent ==
    /\ [](\A c \in Clients :
            /\ FieldOf(peers, c) = OwnThread(c)
            /\ peers.sent[c].req.chat_id = peers.sent[c].id
            /\ peers.sent[c].req.parent_id = peers.sent[c].rid)
    /\ [][\A c \in Clients :
            c # peers'.by => FieldOf(peers', c) = FieldOf(peers, c)]_vars

\* both clients are inside their second turn, each threaded on its own
\* conversation
C33_Witness ==
    /\ peers.at[1].pc = "tail" /\ peers.at[2].pc = "tail"
    /\ peers.sent[1].req.chat_id = "c1" /\ peers.sent[1].req.parent_id = "r1"
    /\ peers.sent[2].req.chat_id = "c2" /\ peers.sent[2].req.parent_id = "r3"
    /\ FieldOf(peers, 1).parent_id = "r2"
    /\ FieldOf(peers, 2).parent_id = "r4"

\* the step is _ensure_client() at the start of a call()
LLMEnsureStep == last'.ev \in {"ensure", "construct", "raise"}

\* C34: a QwenLLM builds a client only while it is not initialized and so
\* at most one once building has succeeded; every call() sends its turn with
\* the conversation id and the parent pointer that client holds, which no
\* step of the wrapper resets; a failed building leaves the wrapper
\* uninitialized and without a client, and the next call() builds again.
C34_OneClientPerWrapper ==
    /\ [](/\ llm.made <= 1
          /\ llm.initialized <=> llm.made = 1
          /\ llm.has_client <=> llm.initialized
          /\ h_reset = [conversation_id |-> None, parent_id |-> None])
    /\ [][LLMEnsureStep =>
            /\ llm.initialized =>
                  /\ last'.ev = "ensure"
                  /\ conversation_id' = conversation_id
                  /\ parent_id' = parent_id
            /\ ~llm.initialized => last'.ev \in {"construct", "raise"}
            /\ last'.ev = "raise" =>
                  /\ ~llm'.initialized
                  /\ ~llm'.has_client
                  /\ llm'.ret = Raised]_vars
    /\ [][CallStep /\ h_tr'.transport # "none" =>
            /\ llm.initialized
            /\ reqs'[Len(reqs')].chat_id = conversation_id'
            /\ reqs'[Len(reqs')].parent_id = parent_id
            /\ parent_id = h_rid
            /\ conversation_id # None => conversation_id' = conversation_id]_vars

\* after a failed building the wrapper built its one client; a later call()
\* was sent on the conversation and the parent pointer of the call before
C34_Witness ==
    /\ last.ev = "return"
    /\ llm.failed
    /\ llm.made = 1
    /\ h_prior
    /\ conversation_id = "c1"
    /\ reqs = <<TurnRequest("c1", "r1", FeatureConfig(FALSE, DefaultBudget),
                            Content("send_message", args))>>
    /\ llm.ret = RetStr(h_answer)
    /\ h_answer # << >>

====
